---- MODULE Spec2Model ----
(***************************************************************************)
(* Window / output lifecycle of wlral: the window manager's five layer     *)
(* sequences, keyboard focus, the pending-update map reconciled on commit, *)
(* output membership of windows, the output registry and the dispatch of   *)
(* policy callbacks.  Every action is one event handler or one public API  *)
(* call, translated from the Rust source.                                  *)
(***************************************************************************)
EXTENDS Integers, Sequences, FiniteSets, TLC

\* ---------------------------------------------------------------- bounds
MaxWindows == 2
MaxOutputs == 2
MaxCoord == 1
MaxSerial == 1
MaxClients == 1
MaxConfigures == 2

\* ------------------------------------------------------------- constants
\* xwayland.rs: "As XWayland does not support serials we use this constant"
CONFIGURE_SERIAL == 1

Windows == 1..MaxWindows
Outputs == 1..MaxOutputs
Clients == 1..MaxClients
Coords == 0..MaxCoord
NULL == 0

WindowLayer == {"Background", "Bottom", "Normal", "Top", "Overlay"}

\* -------------------------------------------------------------- geometry
Point(x, y) == [x |-> x, y |-> y]
PointZERO == Point(0, 0)
Displacement(dx, dy) == [dx |-> dx, dy |-> dy]
DisplacementZERO == Displacement(0, 0)
Size(w, h) == [width |-> w, height |-> h]
Rectangle(tl, sz) == [top_left |-> tl, size |-> sz]

\* the positions the environment and the policy choose from
Points == {Point(x, 0) : x \in Coords}

as_displacement(p) == Displacement(p.x, p.y)
PointSub(a, b) == Displacement(a.x - b.x, a.y - b.y)
PointAddD(p, d) == Point(p.x + d.dx, p.y + d.dy)
DispAdd(a, b) == Displacement(a.dx + b.dx, a.dy + b.dy)
DispSub(a, b) == Displacement(a.dx - b.dx, a.dy - b.dy)
RectAddD(r, d) == Rectangle(PointAddD(r.top_left, d), r.size)
SizeSub(a, b) == Size(a.width - b.width, a.height - b.height)

\* `as i32` of a float quotient truncates toward zero
TruncDiv(a, b) == IF a >= 0 THEN a \div b ELSE -((-a) \div b)
\* `as f32`: integers below 2^24 in magnitude are exact, larger ones are
\* rounded to the nearest multiple of the spacing of their binade, ties to
\* the even mantissa
F32Exact == 16777216
RECURSIVE F32Spacing(_, _)
F32Spacing(a, g) == IF a < F32Exact * g THEN g ELSE F32Spacing(a, 2 * g)
AsF32(v) ==
  LET a == IF v >= 0 THEN v ELSE 0 - v
      g == F32Spacing(a, 1)
      q == a \div g
      r == a % g
      m == IF 2 * r < g THEN q
           ELSE IF 2 * r > g THEN q + 1
           ELSE IF q % 2 = 0 THEN q ELSE q + 1
  IN IF v >= 0 THEN m * g ELSE 0 - (m * g)
\* Div<f32> for Size: ((width as f32) / k) as i32
SizeDiv(s, k) == Size(TruncDiv(AsF32(s.width), k), TruncDiv(AsF32(s.height), k))
size_as_displacement(s) == Displacement(s.width, s.height)

\* `as i16`: two's complement wrap to 16 bits
AsI16(v) == ((v + 32768) % 65536) - 32768
\* `as u16`: wrap to 16 bits
AsU16(v) == v % 65536

\* i32 addition: a build without overflow checks wraps to 32 bits, a build
\* with them panics
MaxI32 == 2147483647
MinI32 == (0 - MaxI32) - 1
AddOverflows(a, b) == (b > 0 /\ a > MaxI32 - b) \/ (b < 0 /\ a < MinI32 - b)
WrappingAdd(a, b) ==
  IF b > 0 /\ a > MaxI32 - b THEN (a - MaxI32 - 1) + (b - MaxI32 - 1)
  ELSE IF b < 0 /\ a < MinI32 - b THEN (a + MaxI32 + 1) + (b + MaxI32 + 1)
  ELSE a + b

left(r) == r.top_left.x
top(r) == r.top_left.y
right(r) == WrappingAdd(left(r), r.size.width)
bottom(r) == WrappingAdd(top(r), r.size.height)

overlaps(self, rectangle) ==
  LET disjoint == \/ left(rectangle) >= right(self)
                  \/ right(rectangle) <= left(self)
                  \/ top(rectangle) >= bottom(self)
                  \/ bottom(rectangle) <= top(self)
                  \/ self.size.width = 0
                  \/ self.size.height = 0
                  \/ rectangle.size.width = 0
                  \/ rectangle.size.height = 0
  IN ~disjoint

\* Rectangle::overlaps as a call: the disjuncts are evaluated left to right
\* and stop at the first true one; with overflow checks an addition that
\* overflows on the way panics
overlaps_call(self, rectangle, overflow_checks) ==
  LET x1 == AddOverflows(left(self), self.size.width)
      x2 == AddOverflows(left(rectangle), rectangle.size.width)
      y1 == AddOverflows(top(self), self.size.height)
      y2 == AddOverflows(top(rectangle), rectangle.size.height)
      panics ==
        \/ x1
        \/ /\ ~(left(rectangle) >= right(self))
           /\ \/ x2
              \/ /\ ~(right(rectangle) <= left(self))
                 /\ \/ y1
                    \/ ~(top(rectangle) >= bottom(self)) /\ y2
  IN IF overflow_checks /\ panics THEN "panic"
     ELSE IF overlaps(self, rectangle) THEN "true" ELSE "false"

\* ------------------------------------------------------ sequence helpers
RECURSIVE SeqRetain(_, _)
\* Vec::retain: keep the elements not equal to x, in order
SeqRetain(s, x) ==
  IF s = <<>> THEN <<>>
  ELSE IF Head(s) = x THEN SeqRetain(Tail(s), x)
       ELSE <<Head(s)>> \o SeqRetain(Tail(s), x)

SeqHas(s, x) == \E i \in 1..Len(s) : s[i] = x
SeqSet(s) == {s[i] : i \in 1..Len(s)}
SeqCount(s, x) == Cardinality({i \in 1..Len(s) : s[i] = x})

\* ------------------------------------------------------------------ state
VARIABLES
  windows,          \* [Windows -> window record]: struct Window and the state of its wrapped surface
  layers,           \* WindowManager.layers: [WindowLayer -> Seq(Windows)], back to front
  focused_surface,  \* seat keyboard_state.focused_surface (NULL = none)
  exclusive_client, \* SeatManager.exclusive_client (NULL = none)
  display_serial,   \* last configure serial handed out by the display
  outputs,          \* OutputManager.outputs: Seq(Outputs), discovery order
  output_state,     \* [Outputs -> output record]
  policy,           \* WmPolicyManager.policy: "none" or the registered policy
  seen,             \* the last callback the policy received and what it could observe while it ran
  fired,            \* on_entered_output / on_left_output / on_new_output events fired by the last handler
  last_op,          \* the window operation (commit, set_extents, move_to, focus_window) the
                    \* last step performed, with its arguments; NoOp after any other step
  pointer_focus,    \* seat pointer_state.focused_surface (NULL = none)
  event_filters,    \* EventFilterManager.event_filters: Seq of filters, in the order added
  gesture,          \* FloatingWindowManager.gesture
  restore_size,     \* FloatingWindowManager.restore_size: surface -> Rectangle
  cursor,           \* wlr_cursor x / y (an FPoint)
  input,            \* the last input event or client request: the filters it reached, what
                    \* was forwarded to the client and what the policy called; NoInput
                    \* after any other step
  omp,              \* OutputManagementProtocol: the pending output test and its timer
  call              \* the last call of a pure geometry function: arguments and outcome

vars == <<windows, layers, focused_surface, exclusive_client, display_serial,
          outputs, output_state, policy, seen, fired, last_op,
          pointer_focus, event_filters, gesture, restore_size, cursor, input, omp, call>>

\* The surface-local state a client can present: geometry hint (or X11
\* x/y/width/height) and the buffer offset current.dx / current.dy.
SurfaceProfiles ==
  { [geo |-> Rectangle(PointZERO, Size(1, 1)), buf |-> PointZERO],      \* no shadow
    [geo |-> Rectangle(Point(1, 0), Size(1, 1)), buf |-> PointZERO],    \* client-side shadow
    [geo |-> Rectangle(PointZERO, Size(1, 1)), buf |-> Point(1, 0)] }   \* buffer attached at an offset

PopupGeometries == {Point(1, 0)}
RequestSizes == {Size(2, 2)}
OutputSizes == {Size(1, 1)}

NoWindow ==
  [status |-> "none", kind |-> "xdg_toplevel", layer |-> "Normal", mapped |-> FALSE,
   top_left |-> PointZERO, geo |-> Rectangle(PointZERO, Size(0, 0)), buf |-> PointZERO,
   parent |-> NULL, popup_geometry |-> PointZERO, pending_updates |-> <<>>,
   outputs |-> <<>>, activated |-> FALSE, keyboard_interactive |-> FALSE,
   client |-> NULL, held |-> FALSE, configure_serial |-> 0,
   attached_edges |-> {}, output |-> NULL, layout_listener |-> FALSE,
   server_pending |-> {}, current |-> {}, requested_size |-> Size(0, 0)]

NoOutput == [status |-> "none", top_left |-> PointZERO, size |-> Size(0, 0),
             subscribed |-> FALSE, on_destroy |-> 0]

NoSeen == [cb |-> "none", id |-> NULL, enumerable |-> FALSE, registered |-> FALSE,
           listed_by |-> {}, top_left |-> PointZERO]

Op(op, id, serial, point, flag) ==
  [op |-> op, id |-> id, serial |-> serial, point |-> point, flag |-> flag,
   had_focus |-> FALSE]
NoOp == Op("none", NULL, 0, PointZERO, FALSE)

\* An FPoint holds f64 coordinates; they are kept in units of 1/FUnit so that
\* the fractional cursor positions libinput reports stay exact
FUnit == 2
FPoint(fx, fy) == [fx |-> fx, fy |-> fy]
FPointZERO == FPoint(0, 0)

NoGesture == [kind |-> "none", window |-> NULL, drag_point |-> FPointZERO,
              cursor_position |-> FPointZERO, edges |-> {},
              original_extents |-> Rectangle(PointZERO, Size(0, 0))]

NoInput == [kind |-> "none", id |-> NULL, position |-> FPointZERO, state |-> "none",
            called |-> <<>>, handled |-> FALSE, calls |-> <<>>, notified |-> <<>>,
            result |-> "none"]

\* released counts the releases of the handler closure of the WlTimer made
\* last; used_released tells that the closure was read after a release
NoOmp == [pending |-> FALSE, old_config |-> <<>>, new_config |-> <<>>, timer |-> "none",
          crashed |-> FALSE, released |-> 0, used_released |-> FALSE]

NoCall == [fn |-> "none", self |-> Rectangle(PointZERO, Size(0, 0)),
           rectangle |-> Rectangle(PointZERO, Size(0, 0)), result |-> "none",
           overflow_checks |-> FALSE, point |-> PointZERO, found |-> NULL,
           listeners |-> <<>>, registered |-> <<>>, invoked |-> <<>>]

\* pending_updates is a BTreeMap<u32, PendingUpdate>: a function on its keys
MapInsert(m, k, v) == [x \in (DOMAIN m) \cup {k} |-> IF x = k THEN v ELSE m[x]]
MapRemove(m, k) ==
  IF (DOMAIN m) \ {k} = {} THEN <<>> ELSE [x \in (DOMAIN m) \ {k} |-> m[x]]

\* The part of the state the window code reads and writes while one handler runs
St(ws, ls, fs, fd) == [windows |-> ws, layers |-> ls, focused |-> fs, fired |-> fd]

\* ------------------------------------------------------ WindowLayers
all_windows(ls) ==
  ls["Background"] \o ls["Bottom"] \o ls["Normal"] \o ls["Top"] \o ls["Overlay"]

\* WindowLayers::update with the closure's result written to the chosen layer
update(ls, layer, newseq) == [ls EXCEPT ![layer] = newseq]

\* ------------------------------------------------------ surface capability
can_receive_focus(win) ==
  CASE win.kind = "xdg_toplevel" -> TRUE
    [] win.kind = "xdg_popup" -> FALSE
    [] win.kind = "layer" -> win.keyboard_interactive
    [] win.kind = "xwayland" -> TRUE

surface_extents(win) ==
  IF win.kind = "layer" THEN Rectangle(PointZERO, win.geo.size) ELSE win.geo

buffer_displacement(win) ==
  IF win.kind = "xwayland" THEN DisplacementZERO
  ELSE PointSub(surface_extents(win).top_left, win.buf)

\* XdgSurface::parent_displacement; the parent's geometry is read from the
\* parent surface when that surface is an XDG surface
parent_displacement(ws, win) ==
  IF win.kind = "xdg_popup"
  THEN IF ws[win.parent].kind \in {"xdg_toplevel", "xdg_popup"}
       THEN Displacement(ws[win.parent].geo.top_left.x + win.popup_geometry.x,
                         ws[win.parent].geo.top_left.y + win.popup_geometry.y)
       ELSE Displacement(win.popup_geometry.x, win.popup_geometry.y)
  ELSE DisplacementZERO

parent_wlr_surface(win) == IF win.kind = "xdg_popup" THEN win.parent ELSE NULL

\* wlr_surface.current.{dx,dy,width,height}
buffer_rect(win) == Rectangle(win.buf, win.geo.size)

\* Surface::set_activated: only toplevels and X11 windows carry the flag
surface_set_activated(win, activated) ==
  IF win.kind \in {"xdg_toplevel", "xwayland"}
  THEN [win EXCEPT !.activated = activated] ELSE win

\* ------------------------------------------------------ Window geometry
\* a position_displacement that leaves the parent window out
position_displacement_without_parent(ws, ls, w) ==
  DispSub(DispAdd(as_displacement(ws[w].top_left), parent_displacement(ws, ws[w])),
          buffer_displacement(ws[w]))

RECURSIVE position_displacement(_, _, _)
position_displacement(ws, ls, w) ==
  LET win == ws[w]
      p == parent_wlr_surface(win)
      parent_disp ==
        IF p # NULL /\ SeqHas(all_windows(ls), p)
        THEN as_displacement(
               PointAddD(buffer_rect(ws[p]).top_left, position_displacement(ws, ls, p)))
        ELSE DisplacementZERO
  IN DispSub(DispAdd(DispAdd(as_displacement(win.top_left), parent_disp),
                     parent_displacement(ws, win)),
             buffer_displacement(win))

extents(ws, ls, w) == RectAddD(surface_extents(ws[w]), position_displacement(ws, ls, w))

\* Rectangle::contains as the build evaluates it: the chain of && stops at
\* the first false comparison; right() and bottom() are i32 additions that
\* panic in a build with overflow checks and wrap in one without
contains_call(r, point, overflow_checks) ==
  IF ~(left(r) <= point.x) THEN "false"
  ELSE IF overflow_checks /\ AddOverflows(left(r), r.size.width) THEN "panic"
  ELSE IF ~(right(r) > point.x) THEN "false"
  ELSE IF ~(top(r) <= point.y) THEN "false"
  ELSE IF overflow_checks /\ AddOverflows(top(r), r.size.height) THEN "panic"
  ELSE IF bottom(r) > point.y THEN "true" ELSE "false"

\* all_windows().rev().find(|window| window.extents().contains(point)), from
\* index i of seq down
RECURSIVE window_at_from(_, _, _, _, _, _)
window_at_from(ws, ls, seq, i, point, overflow_checks) ==
  IF i = 0 THEN [result |-> "none", found |-> NULL]
  ELSE LET step(c) ==
             IF c = "panic" THEN [result |-> "panic", found |-> NULL]
             ELSE IF c = "true" THEN [result |-> "some", found |-> seq[i]]
             ELSE window_at_from(ws, ls, seq, i - 1, point, overflow_checks)
       IN step(contains_call(extents(ws, ls, seq[i]), point, overflow_checks))

\* WindowManager::window_at
window_at(ws, ls, point, overflow_checks) ==
  window_at_from(ws, ls, all_windows(ls), Len(all_windows(ls)), point, overflow_checks)

output_extents(os, o) == Rectangle(os[o].top_left, os[o].size)

\* ------------------------------------------------------ Window operations
\* an update_outputs that only ever adds outputs
RECURSIVE update_outputs_entering_only(_, _, _, _, _, _)
update_outputs_entering_only(st, reg, os, w, ext, i) ==
  IF i > Len(reg) THEN st
  ELSE
    LET output == reg[i]
        next ==
          IF overlaps(output_extents(os, output), ext) /\ ~SeqHas(st.windows[w].outputs, output)
          THEN [st EXCEPT !.windows[w].outputs = Append(@, output),
                          !.fired = Append(@, <<"entered", w, output>>)]
          ELSE st
    IN update_outputs_entering_only(next, reg, os, w, ext, i + 1)

RECURSIVE update_outputs_from(_, _, _, _, _, _)
\* The loop of Window::update_outputs over the registry, from index i on
update_outputs_from(st, reg, os, w, ext, i) ==
  IF i > Len(reg) THEN st
  ELSE
    LET output == reg[i]
        previously_on_output == SeqHas(st.windows[w].outputs, output)
        currently_on_output == overlaps(output_extents(os, output), ext)
        next ==
          IF currently_on_output /\ ~previously_on_output
          THEN [st EXCEPT !.windows[w].outputs = Append(@, output),
                          !.fired = Append(@, <<"entered", w, output>>)]
          ELSE IF ~currently_on_output /\ previously_on_output
          THEN [st EXCEPT !.windows[w].outputs = SeqRetain(@, output),
                          !.fired = Append(@, <<"left", w, output>>)]
          ELSE st
    IN update_outputs_from(next, reg, os, w, ext, i + 1)

update_outputs(st, reg, os, w) ==
  update_outputs_from(st, reg, os, w, extents(st.windows, st.layers, w), 1)

\* XwaylandSurface::move_to re-sends a configure, which stores the (16 bit)
\* position in the X11 surface; XDG and layer surfaces ignore the call
surface_move_to(win, top_left) ==
  IF win.kind = "xwayland"
  THEN [win EXCEPT !.geo.top_left = Point(AsI16(top_left.x), AsI16(top_left.y))]
  ELSE win

move_to(st, reg, os, w, top_left) ==
  LET st1 == [st EXCEPT !.windows[w].top_left = top_left]
      st2 == [st1 EXCEPT !.windows[w] = surface_move_to(@, top_left)]
  IN update_outputs(st2, reg, os, w)

\* Surface::resize: the serial that the client's next commit is matched with.
\* next is the serial the display would hand out for a new configure.
resize_serial(win, next) ==
  CASE win.kind = "xdg_toplevel" -> next
    [] win.kind = "xdg_popup" -> 0
    [] win.kind = "layer" -> 0
    [] win.kind = "xwayland" -> CONFIGURE_SERIAL

\* the surface state right after Surface::resize: X11 windows take the size
\* at once, a toplevel is sent it with the next configure and its client
\* decides what to commit
surface_resize(win, size) ==
  CASE win.kind = "xwayland" ->
         [win EXCEPT !.geo.size = Size(AsU16(size.width), AsU16(size.height))]
    [] win.kind = "xdg_toplevel" -> [win EXCEPT !.requested_size = size]
    [] OTHER -> win

\* A set_extents that also applies the position at once: the baseline
\* against which the deferral of Window::set_extents is visible.
set_extents_applied_at_once(st, w, rect, next) ==
  [st EXCEPT !.windows[w] =
     [surface_resize(@, rect.size) EXCEPT
        !.top_left = rect.top_left,
        !.pending_updates = MapInsert(@, resize_serial(st.windows[w], next), rect.top_left)]]
set_extents(st, w, rect, next) ==
  [st EXCEPT !.windows[w] =
     [surface_resize(@, rect.size) EXCEPT
        !.pending_updates = MapInsert(@, resize_serial(st.windows[w], next), rect.top_left)]]

\* ------------------------------------------------------ WindowManager
window_has_focus(st, w) == st.focused = w

\* an is_input_allowed that lets every client through
is_input_allowed_for_all(excl, win) == TRUE

is_input_allowed(excl, win) == excl = NULL \/ excl = win.client

deactivate_focused(st) ==
  IF st.focused # NULL
  THEN [st EXCEPT !.windows[st.focused] = surface_set_activated(@, FALSE)]
  ELSE st

\* A focus_window without the can_receive_focus test: the baseline against
\* which the early return of WindowManager::focus_window shows.
focus_window_unguarded(st, excl, w) ==
  IF ~is_input_allowed(excl, st.windows[w]) THEN st
  ELSE IF w = st.focused THEN st
  ELSE
    LET st1 == deactivate_focused(st)
        layer == st1.windows[w].layer
        st2 == [st1 EXCEPT !.layers = update(@, layer, Append(SeqRetain(@[layer], w), w))]
        st3 == [st2 EXCEPT !.windows[w] = surface_set_activated(@, TRUE)]
    IN [st3 EXCEPT !.focused = w]
\* A focus_window that raises the window in the Normal layer whatever its
\* own layer is: the baseline against which the use of window.layer shows.
focus_window_in_normal_layer(st, excl, w) ==
  IF ~can_receive_focus(st.windows[w]) THEN st
  ELSE IF ~is_input_allowed(excl, st.windows[w]) THEN st
  ELSE IF w = st.focused THEN st
  ELSE
    LET st1 == deactivate_focused(st)
        st2 == [st1 EXCEPT !.layers =
                  update(@, "Normal", Append(SeqRetain(@["Normal"], w), w))]
        st3 == [st2 EXCEPT !.windows[w] = surface_set_activated(@, TRUE)]
    IN [st3 EXCEPT !.focused = w]
\* A focus_window that pushes the window without first retaining the
\* others: the baseline against which the retain shows.
focus_window_without_retain(st, excl, w) ==
  IF ~can_receive_focus(st.windows[w]) THEN st
  ELSE IF ~is_input_allowed(excl, st.windows[w]) THEN st
  ELSE IF w = st.focused THEN st
  ELSE
    LET st1 == deactivate_focused(st)
        layer == st1.windows[w].layer
        st2 == [st1 EXCEPT !.layers = update(@, layer, Append(@[layer], w))]
        st3 == [st2 EXCEPT !.windows[w] = surface_set_activated(@, TRUE)]
    IN [st3 EXCEPT !.focused = w]
focus_window(st, excl, w) ==
  IF ~can_receive_focus(st.windows[w]) THEN st
  ELSE IF ~is_input_allowed(excl, st.windows[w]) THEN st
  ELSE IF w = st.focused THEN st
  ELSE
    LET st1 == deactivate_focused(st)
        layer == st1.windows[w].layer
        st2 == [st1 EXCEPT !.layers = update(@, layer, Append(SeqRetain(@[layer], w), w))]
        st3 == [st2 EXCEPT !.windows[w] = surface_set_activated(@, TRUE)]
    IN [st3 EXCEPT !.focused = w]

blur(st) == [deactivate_focused(st) EXCEPT !.focused = NULL]

\* new_window that pushes every window at the back
new_window_always_pushing(ls, layer, w, win) == update(ls, layer, Append(ls[layer], w))

new_window(ls, layer, w, win) ==
  IF can_receive_focus(win)
  THEN update(ls, layer, <<w>> \o ls[layer])
  ELSE update(ls, layer, Append(ls[layer], w))

\* A destroy_window that leaves the layer sequences alone: the baseline
\* against which the removal by WindowManager::destroy_window shows.
destroy_window_keeping_entry(ls, layer, w) == ls
destroy_window(ls, layer, w) == update(ls, layer, SeqRetain(ls[layer], w))

\* ------------------------------------------------------ ownership
\* Strong references (Rc) to a window held by the library: its entries in the
\* layer sequences and, for a layer-shell window, the clone captured by its
\* output-layout listener.  held is a clone kept outside the library.
LibraryRefs(ws, ls, w) ==
  SeqCount(all_windows(ls), w) + (IF ws[w].layout_listener THEN 1 ELSE 0)
StrongCount(ws, ls, w) == LibraryRefs(ws, ls, w) + (IF ws[w].held THEN 1 ELSE 0)
\* Weak::upgrade succeeds
Upgradable(ws, ls, w) == StrongCount(ws, ls, w) > 0

\* Strong references (Rc) to an output held by the library: its entry in the
\* registry, the clones captured by its config listener and by its own
\* on_destroy listener, and the entries in the windows' outputs lists.
OutputRefs(ws, reg, os, o) ==
  SeqCount(reg, o) + (IF os[o].subscribed THEN 1 ELSE 0) + os[o].on_destroy
  + Cardinality({w \in Windows : ws[w].status = "live" /\ SeqHas(ws[w].outputs, o)})

\* ------------------------------------------------------ layer shell
AnchorChoices == { {"TOP", "LEFT"} }

\* update_anchor_edges (margins are zero): the position the anchors give the
\* window on its output; NULL-output or unknown output closes the surface
anchored_top_left(ext, oext, edges) ==
  Point(IF "LEFT" \in edges THEN left(oext)
        ELSE IF "RIGHT" \in edges THEN left(oext) + oext.size.width - ext.size.width
        ELSE left(oext) + TruncDiv(oext.size.width, 2) - TruncDiv(ext.size.width, 2),
        IF "TOP" \in edges THEN top(oext)
        ELSE IF "BOTTOM" \in edges THEN top(oext) + oext.size.height - ext.size.height
        ELSE top(oext) + TruncDiv(oext.size.height, 2) - TruncDiv(ext.size.height, 2))

update_anchor_edges(st, reg, os, w) ==
  LET win == st.windows[w] IN
  IF win.kind # "layer" THEN st
  ELSE IF ~SeqHas(reg, win.output) THEN st
  ELSE move_to(st, reg, os, w,
               anchored_top_left(extents(st.windows, st.layers, w),
                                 output_extents(os, win.output), win.attached_edges))

\* ------------------------------------------------------ policy dispatch
WindowCallbacks == {"handle_window_ready", "advise_new_window",
                    "advise_configured_window", "advise_delete_window"}
OutputCallbacks == {"advise_output_create", "advise_output_delete"}

\* What the registered policy can observe through the public API while the
\* callback cb runs with argument id
Observation(cb, id, st, reg) ==
  [cb |-> cb, id |-> id,
   enumerable |-> cb \in WindowCallbacks /\ SeqHas(all_windows(st.layers), id),
   registered |-> cb \in OutputCallbacks /\ SeqHas(reg, id),
   listed_by |-> IF cb \in OutputCallbacks
                 THEN {w \in Windows : st.windows[w].status = "live"
                                       /\ SeqHas(st.windows[w].outputs, id)}
                 ELSE {},
   top_left |-> IF cb \in WindowCallbacks THEN st.windows[id].top_left ELSE PointZERO]

\* A dispatch that forwards whether or not a policy is registered: the
\* baseline against which the Option test of WmPolicyManager shows.
dispatch_unconditional(pol, prev, cb, id, st, reg) == Observation(cb, id, st, reg)
\* WmPolicyManager::<callback>: forwarded only when a policy is registered
dispatch(pol, prev, cb, id, st, reg) ==
  IF pol = "none" THEN prev ELSE Observation(cb, id, st, reg)

\* FloatingWindowManager::output_for_window
RECURSIVE first_overlapping(_, _, _, _)
first_overlapping(reg, os, ext, i) ==
  IF i > Len(reg) THEN NULL
  ELSE IF overlaps(output_extents(os, reg[i]), ext) THEN reg[i]
  ELSE first_overlapping(reg, os, ext, i + 1)

output_for_window(st, reg, os, w) ==
  LET o == first_overlapping(reg, os, extents(st.windows, st.layers, w), 1)
  IN IF o # NULL THEN o ELSE IF Len(reg) > 0 THEN reg[1] ELSE NULL

\* FloatingWindowManager::handle_window_ready, run only for a registered policy
handle_window_ready(pol, st, reg, os, excl, w) ==
  IF pol = "none" THEN st
  ELSE IF ~can_receive_focus(st.windows[w]) THEN st
  ELSE
    LET output == output_for_window(st, reg, os, w)
        ext == extents(st.windows, st.layers, w)
        centered ==
          IF output = NULL THEN st
          ELSE move_to(st, reg, os, w,
                 PointAddD(os[output].top_left,
                           size_as_displacement(SizeDiv(SizeSub(os[output].size, ext.size), 2))))
    IN focus_window(centered, excl, w)

\* ------------------------------------------------------ output layout events
RECURSIVE update_all_outputs(_, _, _, _, _)
\* the window manager's on_output_layout_change listener
update_all_outputs(st, reg, os, seq, i) ==
  IF i > Len(seq) THEN st
  ELSE update_all_outputs(update_outputs(st, reg, os, seq[i]), reg, os, seq, i + 1)

RECURSIVE update_all_anchors(_, _, _, _)
\* the listeners layer-shell windows subscribed, in subscription order
update_all_anchors(st, reg, os, w) ==
  IF w > MaxWindows THEN st
  ELSE update_all_anchors(
         IF st.windows[w].layout_listener THEN update_anchor_edges(st, reg, os, w) ELSE st,
         reg, os, w + 1)

\* OutputManager.on_output_layout_change.fire(())
on_output_layout_change(st, reg, os) ==
  update_all_anchors(
    update_all_outputs(st, reg, os, all_windows(st.layers), 1), reg, os, 1)

\* ------------------------------------------------------------------ Init
\* the compositor after construction; the geometry calls have their own
\* record
InitCompositor ==
  /\ windows = [w \in Windows |-> NoWindow]
  /\ layers = [l \in WindowLayer |-> <<>>]
  /\ focused_surface = NULL
  /\ exclusive_client = NULL
  /\ display_serial = 0
  /\ outputs = <<>>
  /\ output_state = [o \in Outputs |-> NoOutput]
  /\ policy = "none"
  /\ seen = NoSeen
  /\ fired = <<>>
  /\ last_op = NoOp
  /\ pointer_focus = NULL
  /\ event_filters = <<>>
  /\ gesture = NoGesture
  /\ restore_size = <<>>
  /\ cursor = FPointZERO
  /\ input = NoInput
  /\ omp = NoOmp

Init ==
  /\ InitCompositor
  /\ call = NoCall

Cur == St(windows, layers, focused_surface, <<>>)

\* write back the window-side state a handler leaves behind
Commit_st(st) ==
  /\ windows' = st.windows
  /\ layers' = st.layers
  /\ focused_surface' = st.focused
  /\ fired' = st.fired

Live(w) == windows[w].status = "live" /\ Upgradable(windows, layers, w)
NextWindow(w) == windows[w].status = "none" /\ \A v \in 1..(w - 1) : windows[v].status # "none"
NextOutput(o) == output_state[o].status = "none" /\ \A v \in 1..(o - 1) : output_state[v].status # "none"

\* a handler outside the input path: it reaches no filter and no gesture
\* state; no handler runs once the process has aborted
InputIdle ==
  /\ ~omp.crashed
  /\ input' = NoInput
  /\ UNCHANGED <<pointer_focus, event_filters, gesture, restore_size, cursor, omp, call>>

\* Compositor::run: the policy object is registered as the window management
\* policy and, after the filters added before, as an event filter.  run
\* consumes the compositor, so it happens once.
set_policy ==
  /\ policy = "none"
  /\ ~omp.crashed
  /\ policy' = "floating"
  /\ event_filters' = Append(event_filters, "policy")
  /\ input' = NoInput
  /\ UNCHANGED <<pointer_focus, gesture, restore_size, cursor, omp, call>>
  /\ last_op' = NoOp
  /\ fired' = <<>>
  /\ UNCHANGED <<windows, layers, focused_surface, exclusive_client, display_serial,
                 outputs, output_state>>
  /\ seen' = NoSeen

\* ------------------------------------------------------ new surfaces
\* XdgEventHandler::new_surface; parent = NULL for a toplevel
XdgNewSurface(w, parent, profile, pg, client, held) ==
  /\ InputIdle
  /\ NextWindow(w)
  /\ parent # NULL => windows[parent].status = "live" /\ client = windows[parent].client
  /\ parent = NULL => pg = PointZERO
  /\ LET layer == IF parent # NULL /\ SeqHas(all_windows(layers), parent)
                  THEN windows[parent].layer ELSE "Normal"
         win == [NoWindow EXCEPT !.status = "live",
                   !.kind = IF parent = NULL THEN "xdg_toplevel" ELSE "xdg_popup",
                   !.layer = layer, !.geo = profile.geo, !.buf = profile.buf,
                   !.parent = parent, !.popup_geometry = pg,
                   !.client = client, !.held = held]
         st == St([windows EXCEPT ![w] = win], new_window(layers, layer, w, win),
                  focused_surface, <<>>)
     IN /\ Commit_st(st)
        /\ seen' = dispatch(policy, seen, "advise_new_window", w, st, outputs)
  /\ last_op' = NoOp
  /\ UNCHANGED <<exclusive_client, display_serial, outputs, output_state, policy>>

\* LayersEventHandler::new_surface; o is the output the surface is assigned
LayerNewSurface(w, layer, o, profile, edges, client, held) ==
  /\ InputIdle
  /\ NextWindow(w)
  /\ SeqHas(outputs, o)
  /\ LET win == [NoWindow EXCEPT !.status = "live", !.kind = "layer",
                   !.layer = layer, !.geo = profile.geo, !.buf = profile.buf,
                   !.attached_edges = edges, !.output = o,
                   !.client = client, !.held = held]
         st0 == St([windows EXCEPT ![w] = win], new_window(layers, layer, w, win),
                   focused_surface, <<>>)
         st1 == update_anchor_edges(st0, outputs, output_state, w)
         st == [st1 EXCEPT !.windows[w].layout_listener = TRUE]
     IN /\ Commit_st(st)
        /\ seen' = dispatch(policy, seen, "advise_new_window", w, st, outputs)
  /\ last_op' = NoOp
  /\ UNCHANGED <<exclusive_client, display_serial, outputs, output_state, policy>>

\* XwaylandEventHandler::new_surface
XwaylandNewSurface(w, profile, client, held) ==
  /\ InputIdle
  /\ NextWindow(w)
  /\ LET win == [NoWindow EXCEPT !.status = "live", !.kind = "xwayland",
                   !.layer = "Normal", !.geo = profile.geo, !.buf = profile.buf,
                   !.client = client, !.held = held]
         st == St([windows EXCEPT ![w] = win], new_window(layers, "Normal", w, win),
                  focused_surface, <<>>)
     IN /\ Commit_st(st)
        /\ seen' = dispatch(policy, seen, "advise_new_window", w, st, outputs)
  /\ last_op' = NoOp
  /\ UNCHANGED <<exclusive_client, display_serial, outputs, output_state, policy>>

\* ------------------------------------------------------ WindowEventHandler
\* WindowEventHandler::map
map(w) ==
  /\ InputIdle
  /\ Live(w)
  /\ ~windows[w].mapped
  /\ LET st1 == update_outputs(Cur, outputs, output_state, w)
         st2 == handle_window_ready(policy, st1, outputs, output_state, exclusive_client, w)
         st == [st2 EXCEPT !.windows[w].mapped = TRUE]
     IN /\ Commit_st(st)
        /\ seen' = dispatch(policy, seen, "handle_window_ready", w, st1, outputs)
  /\ last_op' = NoOp
  /\ UNCHANGED <<exclusive_client, display_serial, outputs, output_state, policy>>

\* WindowEventHandler::unmap
unmap(w) ==
  /\ InputIdle
  /\ Live(w)
  /\ windows[w].mapped
  /\ windows' = [windows EXCEPT ![w].mapped = FALSE]
  /\ fired' = <<>>
  /\ last_op' = NoOp
  /\ UNCHANGED <<layers, focused_surface, exclusive_client, display_serial,
                 outputs, output_state, policy>>
  /\ seen' = NoSeen

\* the serials a client's commit can carry: the last acknowledged one again,
\* or a later configure it acknowledges now
CommitSerials(w) ==
  CASE windows[w].kind = "xwayland" -> {CONFIGURE_SERIAL}
    [] windows[w].kind = "xdg_toplevel" -> windows[w].configure_serial..display_serial
    [] OTHER -> {s \in windows[w].configure_serial..(windows[w].configure_serial + 1) :
                   s <= MaxSerial}

\* A commit handler that never replays a pending update: the baseline
\* against which the replay of WindowEventHandler::commit is visible.
\* commit that leaves the keyboard focus alone
commit_without_blur(st0, reg, os, w, serial) ==
  LET pending == st0.windows[w].pending_updates
      st2 == [st0 EXCEPT !.windows[w].pending_updates = MapRemove(@, serial)]
  IN IF serial \in DOMAIN pending
     THEN move_to(st2, reg, os, w, pending[serial])
     ELSE update_outputs(st2, reg, os, w)

commit_without_replay(st0, reg, os, w, serial) ==
  update_outputs(IF ~can_receive_focus(st0.windows[w]) /\ window_has_focus(st0, w)
                 THEN blur(st0) ELSE st0, reg, os, w)
\* body of WindowEventHandler::commit
commit(st0, reg, os, w, serial) ==
  LET st1 == IF ~can_receive_focus(st0.windows[w]) /\ window_has_focus(st0, w)
             THEN blur(st0) ELSE st0
      pending == st1.windows[w].pending_updates
      st2 == [st1 EXCEPT !.windows[w].pending_updates = MapRemove(@, serial)]
  IN IF serial \in DOMAIN pending
     THEN move_to(st2, reg, os, w, pending[serial])
     ELSE update_outputs(st2, reg, os, w)

\* The commit listeners of the three shells: the client's new surface state
\* is in place (acknowledged serial, and with the latest serial the toplevel
\* state sent with it; keyboard interactivity of a layer surface), a layer
\* surface is re-anchored, then WindowEventHandler::commit
WindowCommitAs(w, serial, interactive, size) ==
  /\ InputIdle
  /\ Live(w)
  /\ serial \in CommitSerials(w)
  /\ windows[w].kind # "layer" => interactive = windows[w].keyboard_interactive
  /\ LET hit == serial \in DOMAIN windows[w].pending_updates
         p == IF hit THEN windows[w].pending_updates[serial] ELSE PointZERO
         st0 == [Cur EXCEPT !.windows[w].keyboard_interactive = interactive,
                            !.windows[w].geo.size = size,
                            !.windows[w].configure_serial =
                               IF windows[w].kind = "xwayland" THEN @ ELSE serial,
                            !.windows[w].current =
                               IF windows[w].kind = "xdg_toplevel" /\ serial = display_serial
                               THEN windows[w].server_pending ELSE @]
         st1 == update_anchor_edges(st0, outputs, output_state, w)
         st == commit(st1, outputs, output_state, w, serial)
     IN /\ Commit_st(st)
        /\ seen' = dispatch(policy, seen, "advise_configured_window", w, st, outputs)
        /\ last_op' = [Op("commit", w, serial, p, hit)
                          EXCEPT !.had_focus = window_has_focus(Cur, w)]
  /\ UNCHANGED <<exclusive_client, display_serial, outputs, output_state, policy>>

\* a commit in which the client keeps the size of its surface
WindowCommit(w, serial, interactive) ==
  WindowCommitAs(w, serial, interactive, windows[w].geo.size)

HasLivePopup(w) ==
  \E c \in Windows : windows[c].status = "live" /\ windows[c].kind = "xdg_popup"
                     /\ windows[c].parent = w

\* WindowEventHandler::destroy, followed by the seat dropping its keyboard
\* and pointer focus on the destroyed surface
WindowDestroy(w) ==
  /\ ~omp.crashed
  /\ input' = NoInput
  /\ pointer_focus' = IF pointer_focus = w THEN NULL ELSE pointer_focus
  /\ UNCHANGED <<event_filters, gesture, restore_size, cursor, omp, call>>
  /\ Live(w)
  /\ ~windows[w].mapped
  /\ ~HasLivePopup(w)
  /\ LET st1 == [Cur EXCEPT !.windows[w].layout_listener = FALSE]   \* on_destroy.fire
         st2 == [st1 EXCEPT !.layers = destroy_window(@, st1.windows[w].layer, w)]
         st == [st2 EXCEPT !.windows[w] =
                             [NoWindow EXCEPT !.status = "destroyed",
                                              !.held = st2.windows[w].held,
                                              !.layout_listener = st2.windows[w].layout_listener],
                           !.focused = IF @ = w THEN NULL ELSE @]
     IN /\ Commit_st(st)
        /\ seen' = dispatch(policy, seen, "advise_delete_window", w, st1, outputs)
  /\ last_op' = NoOp
  /\ UNCHANGED <<exclusive_client, display_serial, outputs, output_state, policy>>

\* a caller asks which window lies at point
WindowAt(point, overflow_checks) ==
  /\ ~omp.crashed
  /\ LET r == window_at(windows, layers, point, overflow_checks)
     IN call' = [NoCall EXCEPT !.fn = "window_at", !.point = point,
                               !.overflow_checks = overflow_checks,
                               !.result = r.result, !.found = r.found]
  /\ UNCHANGED <<windows, layers, focused_surface, exclusive_client, display_serial,
                 outputs, output_state, policy, seen, fired, last_op,
                 pointer_focus, event_filters, gesture, restore_size, cursor, input, omp>>

\* RefCell::borrow_mut on the shared Rc<RefCell<WmPolicyManager>>: it panics
\* while an earlier RefMut is alive
borrow_mut(borrowed) == IF borrowed THEN "panic" ELSE "ok"

\* WindowEventHandler::destroy for window c, entered while the
\* WmPolicyManager is (borrowed) or is not mutably borrowed by a caller
destroy_entered(st, c, borrowed) ==
  LET st1 == [st EXCEPT !.windows[c].layout_listener = FALSE]   \* on_destroy.fire
      st2 == [st1 EXCEPT !.layers = destroy_window(@, st1.windows[c].layer, c)]
      st3 == [st2 EXCEPT !.windows[c] =
                           [NoWindow EXCEPT !.status = "destroyed",
                                            !.held = st2.windows[c].held],
                         !.focused = IF @ = c THEN NULL ELSE @]
  IN IF borrow_mut(borrowed) = "panic"
     THEN [st |-> st1, panicked |-> TRUE]
     ELSE [st |-> st3, panicked |-> FALSE]

\* The commit handler of window w dispatches advise_configured_window, and
\* the policy, inside that callback, asks popup c to close:
\* wlr_xdg_popup_destroy emits the popup's destroy signal before it returns,
\* so WindowEventHandler::destroy of c runs inside the callback.
PolicyAsksPopupToClose(w, serial, c) ==
  /\ ~omp.crashed
  /\ input' = NoInput
  /\ UNCHANGED <<pointer_focus, event_filters, gesture, restore_size, cursor, call>>
  /\ policy # "none"
  /\ Live(w) /\ Live(c)
  /\ windows[c].kind = "xdg_popup" /\ ~HasLivePopup(c) /\ ~windows[c].mapped
  /\ serial \in CommitSerials(w)
  /\ LET hit == serial \in DOMAIN windows[w].pending_updates
         p == IF hit THEN windows[w].pending_updates[serial] ELSE PointZERO
         st0 == [Cur EXCEPT !.windows[w].configure_serial = serial,
                            !.windows[w].current =
                               IF windows[w].kind = "xdg_toplevel" /\ serial = display_serial
                               THEN windows[w].server_pending ELSE @]
         st == commit(st0, outputs, output_state, w, serial)
         \* the RefMut of the commit handler's borrow_mut() lives until
         \* advise_configured_window returns
         nested == destroy_entered(st, c, TRUE)
     IN /\ windows[w].kind \in {"xdg_toplevel", "xdg_popup"}
        /\ Commit_st(nested.st)
        /\ omp' = [omp EXCEPT !.crashed = nested.panicked]
        /\ seen' = dispatch(policy, seen, "advise_configured_window", w, st, outputs)
        /\ last_op' = [Op("commit", w, serial, p, hit)
                          EXCEPT !.had_focus = window_has_focus(Cur, w)]
  /\ UNCHANGED <<exclusive_client, display_serial, outputs, output_state, policy>>

\* a clone of the Rc<Window> kept outside the library is dropped
DropWindowRef(w) ==
  /\ InputIdle
  /\ windows[w].status # "none"
  /\ windows[w].held
  /\ windows' = [windows EXCEPT ![w].held = FALSE]
  /\ fired' = <<>>
  /\ last_op' = NoOp
  /\ UNCHANGED <<layers, focused_surface, exclusive_client, display_serial,
                 outputs, output_state, policy>>
  /\ seen' = NoSeen

\* ------------------------------------------------------ public API calls
\* Window::move_to
ApiMoveTo(w, p) ==
  /\ InputIdle
  /\ Live(w)
  /\ Commit_st(move_to(Cur, outputs, output_state, w, p))
  /\ last_op' = Op("move_to", w, 0, p, FALSE)
  /\ UNCHANGED <<exclusive_client, display_serial, outputs, output_state, policy>>
  /\ seen' = NoSeen

\* Window::set_extents
ApiSetExtents(w, rect) ==
  /\ InputIdle
  /\ Live(w)
  /\ windows[w].kind = "xdg_toplevel" => display_serial < MaxSerial
  /\ Commit_st(set_extents(Cur, w, rect, display_serial + 1))
  /\ display_serial' = IF windows[w].kind = "xdg_toplevel"
                       THEN display_serial + 1 ELSE display_serial
  /\ last_op' = Op("set_extents", w, resize_serial(windows[w], display_serial + 1),
                   rect.top_left, FALSE)
  /\ UNCHANGED <<exclusive_client, outputs, output_state, policy>>
  /\ seen' = NoSeen

\* WindowManager::focus_window
ApiFocusWindow(w) ==
  /\ InputIdle
  /\ Live(w)
  /\ Commit_st(focus_window(Cur, exclusive_client, w))
  /\ last_op' = Op("focus_window", w, 0, PointZERO, can_receive_focus(windows[w]))
  /\ UNCHANGED <<exclusive_client, display_serial, outputs, output_state, policy>>
  /\ seen' = NoSeen

\* WindowManager::blur
ApiBlur ==
  /\ InputIdle
  /\ Commit_st(blur(Cur))
  /\ last_op' = NoOp
  /\ UNCHANGED <<exclusive_client, display_serial, outputs, output_state, policy>>
  /\ seen' = NoSeen

\* ------------------------------------------------------ seat
\* SeatManager::set_exclusive_client (inhibit_activate / inhibit_deactivate)
set_exclusive_client(client) ==
  /\ ~omp.crashed
  /\ input' = NoInput
  /\ pointer_focus' =
       IF client # NULL /\ pointer_focus # NULL
          /\ windows[pointer_focus].client # client
       THEN NULL ELSE pointer_focus
  /\ UNCHANGED <<event_filters, gesture, restore_size, cursor, omp, call>>
  /\ exclusive_client' = client
  /\ focused_surface' =
       IF client # NULL /\ focused_surface # NULL
          /\ windows[focused_surface].client # client
       THEN NULL ELSE focused_surface
  /\ fired' = <<>>
  /\ last_op' = NoOp
  /\ UNCHANGED <<windows, layers, display_serial, outputs, output_state, policy>>
  /\ seen' = NoSeen

\* ------------------------------------------------------ OutputManager
\* new_output: mode_ok = FALSE is a failed mode negotiation.  Adding the
\* output to the layout makes the layout announce a change before the output
\* is pushed to the registry.
\* new_output past the mode check: the output joins the layout and the
\* registry, on_new_output fires and the policy is advised
new_output_registering(o, top_left, size) ==
  LET os == [output_state EXCEPT ![o] =
               [status |-> "live", top_left |-> top_left, size |-> size,
                subscribed |-> TRUE, on_destroy |-> 1]]
      st == on_output_layout_change(Cur, outputs, os)
      reg == Append(outputs, o)
  IN /\ output_state' = os
     /\ outputs' = reg
     /\ Commit_st([st EXCEPT !.fired = Append(@, <<"new_output", NULL, o>>)])
     /\ seen' = dispatch(policy, seen, "advise_output_create", o, st, reg)

\* A new_output that never looks at the result of use_preferred_mode: the
\* baseline against which the early return shows.
new_output_without_mode_check(o, top_left, size, mode_ok) ==
  /\ InputIdle
  /\ NextOutput(o)
  /\ new_output_registering(o, top_left, size)
  /\ last_op' = Op("new_output", o, 0, top_left, mode_ok)
  /\ UNCHANGED <<exclusive_client, display_serial, policy>>

\* the new_output listener; mode_ok is the outcome of use_preferred_mode
new_output(o, top_left, size, mode_ok) ==
  /\ InputIdle
  /\ NextOutput(o)
  /\ IF ~mode_ok
     THEN /\ output_state' = [output_state EXCEPT ![o].status = "failed"]
          /\ fired' = <<>>
          /\ seen' = NoSeen
          /\ UNCHANGED <<windows, layers, focused_surface, outputs>>
     ELSE new_output_registering(o, top_left, size)
  /\ last_op' = Op("new_output", o, 0, top_left, mode_ok)
  /\ UNCHANGED <<exclusive_client, display_serial, policy>>

\* EventOnce: listeners is the Vec of handlers, oldest first
EventOnce_then(listeners, handler) == Append(listeners, handler)

\* A fire that walks the list from its end and leaves it as it was: the
\* baseline against which the pop of EventOnce::fire shows.
EventOnce_fire_keeping(listeners) ==
  [listeners |-> listeners,
   invoked |-> [i \in 1..Len(listeners) |-> listeners[Len(listeners) + 1 - i]]]
\* EventOnce::fire: pops the last handler and calls it, until none is left
RECURSIVE EventOnce_fire_from(_, _)
EventOnce_fire_from(listeners, invoked) ==
  IF listeners = <<>> THEN [listeners |-> <<>>, invoked |-> invoked]
  ELSE EventOnce_fire_from(SubSeq(listeners, 1, Len(listeners) - 1),
                           Append(invoked, listeners[Len(listeners)]))
EventOnce_fire(listeners) == EventOnce_fire_from(listeners, <<>>)

\* the handlers held by the on_destroy event of output o
OnDestroyListeners(os, o) == [i \in 1..os[o].on_destroy |-> "output_manager"]

\* The output's destroy event.  The layout, which listens first, forgets the
\* output (its layout position reads as the origin) and announces a change;
\* then the on_destroy listener registered by new_output runs.
OutputDestroy(o) ==
  /\ InputIdle
  /\ output_state[o].status = "live"
  /\ LET os1 == [output_state EXCEPT ![o].top_left = PointZERO]
         st == on_output_layout_change(Cur, outputs, os1)
     IN /\ Commit_st(st)
        /\ seen' = dispatch(policy, seen, "advise_output_delete", o, st, outputs)
        /\ output_state' = [os1 EXCEPT ![o].status = "destroyed",
                                       ![o].subscribed = FALSE,
                                       ![o].on_destroy =
                                         Len(EventOnce_fire(OnDestroyListeners(os1, o)).listeners)]
        /\ outputs' = SeqRetain(outputs, o)
  /\ last_op' = NoOp
  /\ UNCHANGED <<exclusive_client, display_serial, policy>>

\* on_destroy of an output is fired once more after the output was
\* destroyed: the handlers still held by the event run
OutputDestroyAgain(o) ==
  /\ InputIdle
  /\ output_state[o].status = "destroyed"
  /\ LET r == EventOnce_fire(OnDestroyListeners(output_state, o))
     IN /\ Commit_st(Cur)
        /\ seen' = IF r.invoked = <<>> THEN NoSeen
                   ELSE dispatch(policy, seen, "advise_output_delete", o, Cur, outputs)
        /\ output_state' = [output_state EXCEPT ![o].subscribed = FALSE,
                                                ![o].on_destroy = Len(r.listeners)]
        /\ outputs' = IF r.invoked = <<>> THEN outputs ELSE SeqRetain(outputs, o)
  /\ last_op' = Op("output_destroy_again", o, 0, PointZERO, output_state[o].on_destroy > 0)
  /\ UNCHANGED <<exclusive_client, display_serial, policy>>

\* The layout moves or resizes an output and announces the change
OutputLayoutChange(o, top_left, size) ==
  /\ InputIdle
  /\ output_state[o].status = "live"
  /\ LET os == [output_state EXCEPT ![o].top_left = top_left, ![o].size = size]
     IN /\ output_state' = os
        /\ Commit_st(on_output_layout_change(Cur, outputs, os))
  /\ last_op' = NoOp
  /\ UNCHANGED <<exclusive_client, display_serial, outputs, policy>>
  /\ seen' = NoSeen

\* ------------------------------------------------------ handler context
\* What one handler of the input path or of the output management protocol
\* reads and writes: the window-side state, the layout positions, the
\* policy's own fields, the pending output test, and what it reports
\* What a read through a surface pointer that wlroots has freed yields: the
\* process aborts, or the read returns whatever lies there (a geometry, a
\* resizing bit).  NoFreed stands where nothing freed is read.
NoFreed == [aborts |-> FALSE, geo |-> Rectangle(PointZERO, Size(0, 0)), resizing |-> FALSE]
FreedReads ==
  {[NoFreed EXCEPT !.aborts = TRUE]}
    \cup {[NoFreed EXCEPT !.geo = g, !.resizing = b] :
            g \in {Rectangle(PointZERO, Size(0, 0)), Rectangle(PointZERO, Size(1, 1))},
            b \in BOOLEAN}

CurH ==
  [st |-> Cur, os |-> output_state, gesture |-> gesture, restore_size |-> restore_size,
   omp |-> omp, display_serial |-> display_serial, focus |-> pointer_focus,
   calls |-> <<>>, notified |-> <<>>, result |-> "none", freed |-> NoFreed]

\* the Rc<Window> inside the gesture's request outlived the window's surface
GestureDangling(h) ==
  h.gesture.kind # "none" /\ h.st.windows[h.gesture.window].status = "destroyed"

\* ------------------------------------------------------ FPoint arithmetic
FromPoint(p) == FPoint(p.x * FUnit, p.y * FUnit)
\* From<FPoint> for Point: `as i32` truncates toward zero
FromFPoint(f) == Point(TruncDiv(f.fx, FUnit), TruncDiv(f.fy, FUnit))
FPointSub(a, b) == FPoint(a.fx - b.fx, a.fy - b.fy)
\* Displacement::from(FDisplacement)
FDisplacementTrunc(f) == Displacement(TruncDiv(f.fx, FUnit), TruncDiv(f.fy, FUnit))

contains(r, point) ==
  /\ left(r) <= point.x /\ right(r) > point.x
  /\ top(r) <= point.y /\ bottom(r) > point.y

buffer_extents(ws, ls, w) == RectAddD(buffer_rect(ws[w]), position_displacement(ws, ls, w))

\* WindowManager::window_buffer_at: the front-most window, NULL for None
window_buffer_at(ws, ls, point) ==
  LET seq == all_windows(ls)
      hits == {i \in 1..Len(seq) : contains(buffer_extents(ws, ls, seq[i]), point)}
  IN IF hits = {} THEN NULL
     ELSE seq[CHOOSE i \in hits : \A j \in hits : j <= i]

\* ------------------------------------------------------ toplevel state flags
ToplevelFlags == {"maximized", "fullscreen", "resizing"}

\* Surface::maximized / fullscreen / resizing: the state the client has taken
surface_flag(win, flag) ==
  CASE win.kind = "xdg_toplevel" -> flag \in win.current
    [] win.kind = "xwayland" -> flag # "resizing" /\ flag \in win.current
    [] OTHER -> FALSE

\* Surface::set_maximized / set_fullscreen / set_resizing: an XDG toplevel is
\* sent the state with its next configure, an X11 window takes it at once
surface_set_flag(win, flag, on) ==
  CASE win.kind = "xdg_toplevel" ->
         [win EXCEPT !.server_pending = IF on THEN @ \cup {flag} ELSE @ \ {flag}]
    [] win.kind = "xwayland" ->
         IF flag = "resizing" THEN win
         ELSE [win EXCEPT !.current = IF on THEN @ \cup {flag} ELSE @ \ {flag}]
    [] OTHER -> win

\* ------------------------------------------------------ calls made by the policy
h_set_flag(h, w, flag, on) ==
  [h EXCEPT !.st.windows[w] = surface_set_flag(@, flag, on),
            !.calls = Append(@, <<"set_" \o flag, w, on>>)]

h_move_to(h, reg, w, top_left) ==
  [h EXCEPT !.st = move_to(@, reg, h.os, w, top_left),
            !.calls = Append(@, <<"move_to", w, top_left>>)]

h_set_extents(h, w, rect) ==
  [h EXCEPT !.st = set_extents(@, w, rect, h.display_serial + 1),
            !.display_serial = IF h.st.windows[w].kind = "xdg_toplevel" THEN @ + 1 ELSE @,
            !.calls = Append(@, <<"set_extents", w, rect>>)]

h_focus_window(h, excl, w) ==
  [h EXCEPT !.st = focus_window(@, excl, w),
            !.calls = Append(@, <<"focus_window", w>>)]

\* ------------------------------------------------------ OutputManagementProtocol
\* A wlr_output_configuration_v1: one head per output, holding the position
\* the output is to take.  create_output_config may return None (allocation).
create_output_config(reg, os) == [o \in SeqSet(reg) |-> os[o].top_left]

RECURSIVE apply_heads(_, _, _, _)
\* the loop of apply_output_config over the heads of config: the layout moves
\* the head's output and announces the change.  A head whose output has been
\* destroyed has left the configuration.
apply_heads(h, reg, config, o) ==
  IF o > MaxOutputs THEN h
  ELSE IF o \in DOMAIN config /\ h.os[o].status = "live"
  THEN LET os == [h.os EXCEPT ![o].top_left = config[o]]
       IN apply_heads([h EXCEPT !.os = os,
                                !.st = on_output_layout_change(@, reg, os)],
                      reg, config, o + 1)
  ELSE apply_heads(h, reg, config, o + 1)

apply_output_config(h, reg, config) == apply_heads(h, reg, config, 1)

has_pending_test(o) == o.pending

\* Drop for WlTimer: the source is removed from the event loop and
\* drop_handler releases the closure
WlTimer_drop(o) == [o EXCEPT !.timer = "none", !.released = @ + 1]

\* WlTimer::init: a fresh closure; when the event loop refuses the timer,
\* init releases the closure itself and returns Err
WlTimer_init(o, timer_ok) ==
  IF timer_ok THEN [o EXCEPT !.timer = "armed", !.released = 0, !.used_released = FALSE]
  ELSE [o EXCEPT !.timer = "none", !.released = 1, !.used_released = FALSE]

\* dropping the OutputTest: both configurations are destroyed and the timer
\* is dropped
drop_test(o) == WlTimer_drop([o EXCEPT !.pending = FALSE, !.old_config = <<>>,
                                       !.new_config = <<>>])

apply_pending_test(h) ==
  IF h.omp.pending
  THEN [h EXCEPT !.omp = drop_test(@),
                 !.notified = Append(@, <<"send_succeeded", h.omp.new_config>>),
                 !.result = "Ok"]
  ELSE [h EXCEPT !.result = "Err"]

cancel_pending_test(h, reg) ==
  IF h.omp.pending
  THEN LET h1 == [h EXCEPT !.omp.pending = FALSE]                     \* take()
           h2 == apply_output_config(h1, reg, h.omp.old_config)
       IN [h2 EXCEPT !.omp = drop_test(@),
                     !.notified = Append(@, <<"send_failed", h.omp.new_config>>),
                     !.result = "Ok"]
  ELSE [h EXCEPT !.result = "Err"]

\* test_output_config followed by the error branch of the test listener.
\* timer_ok and config_ok are the outcomes of WlTimer::init and of
\* create_output_config.
test_output_config(h, reg, config, timer_ok, config_ok) ==
  LET refused == [h EXCEPT !.result = "Err",
                           !.notified = Append(@, <<"send_failed", config>>)]
      timed == [refused EXCEPT !.omp = WlTimer_init(@, timer_ok)]
  IN IF h.omp.pending THEN refused
     ELSE IF ~timer_ok THEN timed
     ELSE IF ~config_ok THEN [timed EXCEPT !.omp = WlTimer_drop(@)]
     ELSE LET h1 == [h EXCEPT !.omp = [WlTimer_init(@, TRUE) EXCEPT
                                         !.pending = TRUE,
                                         !.old_config = create_output_config(reg, h.os),
                                         !.new_config = config]]
              h2 == apply_output_config(h1, reg, config)
          IN [h2 EXCEPT !.notified = Append(@, <<"test_started", config>>),
                        !.result = "Ok"]

\* The closure handed to WlTimer::init.  cancel_pending_test drops the
\* OutputTest and with it the timer, whose Drop releases this very closure
\* while it runs; the closure then reads its captured protocol handle to
\* fire the timed-out event, and the trampoline releases it again when it
\* returns.  The allocator either tolerates the second release or aborts
\* the process.
TimerOutcomes == {"returns", "aborts"}

\* the trampoline of unpack_closure: it takes the closure back into a Box,
\* runs it and drops the Box
trampoline(h_ran) == [h_ran EXCEPT !.omp.released = @ + 1]

test_timed_out(h, reg, outcome) ==
  LET h1 == cancel_pending_test(h, reg)
      h2 == [h1 EXCEPT !.notified = Append(@, <<"test_timed_out", <<>> >>),
                       !.omp.used_released = (h1.omp.released > 0)]
  IN IF outcome = "aborts" THEN [h1 EXCEPT !.omp.crashed = TRUE] ELSE trampoline(h2)

\* ------------------------------------------------------ FloatingWindowManager requests
WindowEdge == {"TOP", "BOTTOM", "LEFT", "RIGHT"}

\* A move handler that accepts the request of any window: the baseline
\* against which the focus check of handle_request_move shows.
handle_request_move_unguarded(h, w, drag_point) ==
  [h EXCEPT !.gesture = [NoGesture EXCEPT !.kind = "move", !.window = w,
                                          !.drag_point = drag_point]]
handle_request_move(h, w, drag_point) ==
  IF ~window_has_focus(h.st, w) THEN h
  ELSE
    LET h1 == IF surface_flag(h.st.windows[w], "maximized")
              THEN h_set_flag(h, w, "maximized", FALSE) ELSE h
        h2 == IF surface_flag(h1.st.windows[w], "fullscreen")
              THEN h_set_flag(h1, w, "fullscreen", FALSE) ELSE h1
    IN [h2 EXCEPT !.gesture = [NoGesture EXCEPT !.kind = "move", !.window = w,
                                                !.drag_point = drag_point]]

\* A resize handler that withdraws the resizing state before setting it,
\* whatever the client's state: the baseline against which the
\* `if !request.window.resizing()` of handle_request_resize shows.
handle_request_resize_clearing_first(h, w, cursor_position, edges) ==
  IF ~window_has_focus(h.st, w) THEN h
  ELSE
    LET h1 == h_set_flag(h_set_flag(h, w, "resizing", FALSE), w, "resizing", TRUE)
    IN [h1 EXCEPT !.gesture =
          [NoGesture EXCEPT !.kind = "resize", !.window = w,
                            !.cursor_position = cursor_position, !.edges = edges,
                            !.original_extents = extents(h1.st.windows, h1.st.layers, w)]]
handle_request_resize(h, w, cursor_position, edges) ==
  IF ~window_has_focus(h.st, w) THEN h
  ELSE
    LET h1 == IF ~surface_flag(h.st.windows[w], "resizing")
              THEN h_set_flag(h, w, "resizing", TRUE) ELSE h
    IN [h1 EXCEPT !.gesture =
          [NoGesture EXCEPT !.kind = "resize", !.window = w,
                            !.cursor_position = cursor_position, !.edges = edges,
                            !.original_extents = extents(h1.st.windows, h1.st.layers, w)]]

handle_request_maximize(h, reg, w, maximize) ==
  LET output == output_for_window(h.st, reg, h.os, w) IN
  IF output = NULL THEN h
  ELSE IF maximize
  THEN LET h1 == [h EXCEPT !.restore_size =
                     MapInsert(@, w, extents(h.st.windows, h.st.layers, w))]
           h2 == h_set_flag(h1, w, "maximized", TRUE)
       IN h_set_extents(h2, w, output_extents(h.os, output))
  ELSE LET h1 == h_set_flag(h, w, "maximized", FALSE)
       IN IF w \in DOMAIN h1.restore_size
          THEN h_set_extents(h1, w, h1.restore_size[w]) ELSE h1

\* ------------------------------------------------------ FloatingWindowManager as EventFilter
\* A resize in which the BOTTOM and RIGHT bits win over TOP and LEFT: the
\* baseline against which the order of the two if/else-if chains shows.
resized_extents_bottom_first(g, position) ==
  LET displacement == FDisplacementTrunc(FPointSub(position, g.cursor_position))
      e == g.original_extents
      y == IF "TOP" \in g.edges /\ "BOTTOM" \notin g.edges
           THEN e.top_left.y + displacement.dy ELSE e.top_left.y
      height == IF "BOTTOM" \in g.edges THEN e.size.height + displacement.dy
                ELSE IF "TOP" \in g.edges THEN e.size.height - displacement.dy
                ELSE e.size.height
      x == IF "LEFT" \in g.edges /\ "RIGHT" \notin g.edges
           THEN e.top_left.x + displacement.dx ELSE e.top_left.x
      width == IF "RIGHT" \in g.edges THEN e.size.width + displacement.dx
               ELSE IF "LEFT" \in g.edges THEN e.size.width - displacement.dx
               ELSE e.size.width
  IN Rectangle(Point(x, y), Size(width, height))

\* the extents a Resize gesture asks for when the pointer is at position
resized_extents(g, position) ==
  LET displacement == FDisplacementTrunc(FPointSub(position, g.cursor_position))
      e == g.original_extents
      y == IF "TOP" \in g.edges THEN e.top_left.y + displacement.dy ELSE e.top_left.y
      height == IF "TOP" \in g.edges THEN e.size.height - displacement.dy
                ELSE IF "BOTTOM" \in g.edges THEN e.size.height + displacement.dy
                ELSE e.size.height
      x == IF "LEFT" \in g.edges THEN e.top_left.x + displacement.dx ELSE e.top_left.x
      width == IF "LEFT" \in g.edges THEN e.size.width - displacement.dx
               ELSE IF "RIGHT" \in g.edges THEN e.size.width + displacement.dx
               ELSE e.size.width
  IN Rectangle(Point(x, y), Size(width, height))

Answer(h, handled) == [h |-> h, handled |-> handled]

\* move_to / set_extents on the gesture's window; when that window's surface
\* has been destroyed they read its geometry through the freed pointer
policy_pointer_motion_on(h, reg, position) ==
  CASE h.gesture.kind = "move" ->
         Answer(h_move_to(h, reg, h.gesture.window,
                          FromFPoint(FPointSub(position, h.gesture.drag_point))), TRUE)
    [] h.gesture.kind = "resize" ->
         Answer(h_set_extents(h, h.gesture.window, resized_extents(h.gesture, position)), TRUE)
    [] OTHER -> Answer(h, FALSE)

policy_pointer_motion(h, reg, position) ==
  IF ~GestureDangling(h) THEN policy_pointer_motion_on(h, reg, position)
  ELSE IF h.freed.aborts THEN Answer([h EXCEPT !.omp.crashed = TRUE], TRUE)
  ELSE policy_pointer_motion_on([h EXCEPT !.st.windows[h.gesture.window].geo = h.freed.geo],
                                reg, position)

\* A button handler that swallows every release, gesture or not: the
\* baseline against which the (Some(gesture), Released) match shows.
policy_pointer_button_any_release(h, state) ==
  IF state = "Released" THEN Answer([h EXCEPT !.gesture = NoGesture], TRUE)
  ELSE Answer(h, FALSE)
policy_pointer_button(h, state) ==
  IF h.gesture.kind # "none" /\ state = "Released"
  THEN LET w == h.gesture.window
           \* request.window.resizing(), read through a freed pointer when
           \* the window's surface has been destroyed
           resizing == IF GestureDangling(h) THEN h.freed.resizing
                       ELSE surface_flag(h.st.windows[w], "resizing")
           h1 == IF h.gesture.kind = "resize" /\ resizing
                 THEN h_set_flag(h, w, "resizing", FALSE) ELSE h
       IN IF h.gesture.kind = "resize" /\ GestureDangling(h) /\ h.freed.aborts
          THEN Answer([h EXCEPT !.omp.crashed = TRUE], TRUE)
          ELSE Answer([h1 EXCEPT !.gesture = NoGesture], TRUE)
  ELSE Answer(h, FALSE)

Keys == {"ctrl_escape", "ctrl_a", "ctrl_c", "ctrl_alt_d", "other"}

policy_keyboard(h, reg, key, state) ==
  IF state # "Pressed" THEN Answer(h, FALSE)
  ELSE IF key = "ctrl_escape"
  THEN Answer(IF h.st.focused # NULL
              THEN [h EXCEPT !.calls = Append(@, <<"ask_client_to_close", h.st.focused>>)]
              ELSE h, TRUE)
  ELSE IF key = "ctrl_a" /\ has_pending_test(h.omp) THEN Answer(apply_pending_test(h), TRUE)
  ELSE IF key = "ctrl_c" /\ has_pending_test(h.omp)
  THEN Answer(cancel_pending_test(h, reg), TRUE)
  ELSE IF key = "ctrl_alt_d" THEN Answer(h, TRUE)
  ELSE Answer(h, FALSE)

\* ------------------------------------------------------ EventFilterManager
UserFilters == {"f1", "f2"}
Event(kind, position, state, key) ==
  [kind |-> kind, position |-> position, state |-> state, key |-> key]

\* one filter's handle_<kind>_event.  A filter added through add_event_filter
\* is opaque: answers[f] is what it returns for this event.
filter_call(f, ev, h, reg, answers) ==
  IF f = "policy"
  THEN CASE ev.kind = "key" -> policy_keyboard(h, reg, ev.key, ev.state)
         [] ev.kind = "motion" -> policy_pointer_motion(h, reg, ev.position)
         [] ev.kind = "button" -> policy_pointer_button(h, ev.state)
         [] OTHER -> Answer(h, FALSE)
  ELSE Answer(h, answers[f])

RECURSIVE any_filter_exhaustive(_, _, _, _, _, _, _)
\* A dispatch that calls every filter whatever the earlier ones returned:
\* the baseline against which the short circuit of Iterator::any shows.
any_filter_exhaustive(filters, i, ev, h, reg, answers, called) ==
  IF i > Len(filters) THEN [h |-> h, handled |-> FALSE, called |-> called]
  ELSE LET step(a) ==
             [any_filter_exhaustive(filters, i + 1, ev, a.h, reg, answers,
                                    Append(called, <<filters[i], a.handled>>))
                EXCEPT !.handled = a.handled \/ @]
       IN step(filter_call(filters[i], ev, h, reg, answers))
RECURSIVE any_filter(_, _, _, _, _, _, _)
\* event_filters.iter().any(|filter| filter.handle_<kind>_event(event)),
\* from index i on; called is the log of the filters reached so far, each
\* with what it returned
any_filter(filters, i, ev, h, reg, answers, called) ==
  IF i > Len(filters) THEN [h |-> h, handled |-> FALSE, called |-> called]
  ELSE LET step(a) ==
             IF a.handled
             THEN [h |-> a.h, handled |-> TRUE,
                   called |-> Append(called, <<filters[i], TRUE>>)]
             ELSE any_filter(filters, i + 1, ev, a.h, reg, answers,
                             Append(called, <<filters[i], FALSE>>))
       IN step(filter_call(filters[i], ev, h, reg, answers))

\* EventFilterManager::handle_<kind>_event
handle_event(ev, h, reg, answers) == any_filter(event_filters, 1, ev, h, reg, answers, <<>>)

notify(h, what, surface) == [h EXCEPT !.notified = Append(@, <<what, surface>>)]

\* write back what a handler of the input path leaves behind
Commit_h(h, ev, id, called, handled) ==
  /\ Commit_st(h.st)
  /\ output_state' = h.os
  /\ gesture' = h.gesture
  /\ restore_size' = h.restore_size
  /\ omp' = h.omp
  /\ display_serial' = h.display_serial
  /\ pointer_focus' = h.focus
  /\ input' = [kind |-> ev.kind, id |-> id, position |-> ev.position, state |-> ev.state,
               called |-> called, handled |-> handled, calls |-> h.calls,
               notified |-> h.notified, result |-> h.result]
  /\ seen' = NoSeen
  /\ last_op' = NoOp
  /\ UNCHANGED <<exclusive_client, outputs, policy, event_filters, call>>

\* the serials the display hands out stay within the bound
SerialsInBound(h) == h.display_serial <= MaxConfigures

\* Compositor::add_event_filter, callable until run consumes the compositor
add_event_filter(f) ==
  /\ policy = "none"
  /\ ~omp.crashed
  /\ ~SeqHas(event_filters, f)
  /\ event_filters' = Append(event_filters, f)
  /\ input' = NoInput
  /\ fired' = <<>>
  /\ seen' = NoSeen
  /\ last_op' = NoOp
  /\ UNCHANGED <<windows, layers, focused_surface, exclusive_client, display_serial,
                 outputs, output_state, policy, pointer_focus, gesture, restore_size,
                 cursor, omp, call>>

\* ------------------------------------------------------ keyboard and pointer events
\* KeyboardEventHandler::key
KeyboardKey(key, state, answers) ==
  LET ev == Event("key", cursor, state, key)
      \* what follows the filters, r being their answer
      forward(r) ==
        Commit_h(IF ~r.handled THEN notify(r.h, "keyboard_notify_key", r.h.st.focused)
                 ELSE r.h,
                 ev, NULL, r.called, r.handled)
  IN /\ ~omp.crashed
     /\ forward(handle_event(ev, CurH, outputs, answers))
     /\ UNCHANGED cursor

\* CursorEventHandler::axis
PointerAxis(answers) ==
  LET ev == Event("axis", cursor, "none", "none")
      \* what follows the filters, r being their answer
      forward(r) ==
        Commit_h(IF ~r.handled THEN notify(r.h, "pointer_notify_axis", r.h.focus) ELSE r.h,
                 ev, NULL, r.called, r.handled)
  IN /\ ~omp.crashed
     /\ forward(handle_event(ev, CurH, outputs, answers))
     /\ UNCHANGED cursor

\* CursorEventHandler::button; freed is what a read through a freed surface
\* pointer yields, should the policy make one
PointerButtonFreed(state, answers, freed) ==
  LET ev == Event("button", cursor, state, "none")
      \* the press focuses the surface under the cursor
      focused(h0, surface) ==
        IF state = "Pressed" /\ surface # NULL /\ can_receive_focus(h0.st.windows[surface])
        THEN h_focus_window(h0, exclusive_client, surface) ELSE h0
      notified(h1) == notify(h1, "pointer_notify_button", h1.focus)
      finish(h, r) == SerialsInBound(h) /\ Commit_h(h, ev, NULL, r.called, r.handled)
      \* what follows the filters, r being their answer
      forward(r) ==
        finish(IF ~r.handled
               THEN notified(focused(r.h, window_buffer_at(r.h.st.windows, r.h.st.layers,
                                                           FromFPoint(cursor))))
               ELSE r.h,
               r)
  IN /\ ~omp.crashed
     /\ ~GestureDangling(CurH) => freed = NoFreed
     /\ forward(handle_event(ev, [CurH EXCEPT !.freed = freed], outputs, answers))
     /\ UNCHANGED cursor

\* a button event while every window the policy refers to has its surface
PointerButton(state, answers) ==
  ~GestureDangling(CurH) /\ PointerButtonFreed(state, answers, NoFreed)

\* CursorManager::process_motion, reached from motion and motion_absolute:
\* the cursor is warped and the surface under it is notified, then the
\* filters see the event; freed is what a read through a freed surface
\* pointer yields, should the policy make one
PointerMotionFreed(position, answers, freed) ==
  LET ev == Event("motion", position, "none", "none")
      surface == window_buffer_at(windows, layers, FromFPoint(position))
      h0 == [CurH EXCEPT !.freed = freed]
      h1 == IF surface # NULL
            THEN IF is_input_allowed(exclusive_client, windows[surface])
                 THEN LET entered == notify([h0 EXCEPT !.focus = surface],
                                            "pointer_notify_enter", surface)
                      IN IF pointer_focus = surface
                         THEN notify(entered, "pointer_notify_motion", surface)
                         ELSE entered
                 ELSE h0
            ELSE notify([h0 EXCEPT !.focus = NULL], "pointer_clear_focus", NULL)
      \* what follows the filters, r being their answer
      forward(r) == SerialsInBound(r.h) /\ Commit_h(r.h, ev, NULL, r.called, r.handled)
  IN /\ ~omp.crashed
     /\ ~GestureDangling(CurH) => freed = NoFreed
     /\ cursor' = position
     /\ forward(handle_event(ev, h1, outputs, answers))

\* a motion event while every window the policy refers to has its surface
PointerMotion(position, answers) ==
  ~GestureDangling(CurH) /\ PointerMotionFreed(position, answers, NoFreed)

\* ------------------------------------------------------ client requests
RequestingKinds == {"xdg_toplevel", "xwayland"}

\* WindowEventHandler::request_move
RequestMove(w) ==
  LET ev == Event("request_move", cursor, "none", "none")
      drag_point == FPointSub(cursor, FromPoint(extents(windows, layers, w).top_left))
      h == IF policy = "none" THEN CurH ELSE handle_request_move(CurH, w, drag_point)
  IN /\ ~omp.crashed
     /\ Live(w) /\ windows[w].kind \in RequestingKinds
     /\ Commit_h(h, ev, w, <<>>, FALSE)
     /\ UNCHANGED cursor

\* WindowEventHandler::request_resize
RequestResize(w, edges) ==
  LET ev == Event("request_resize", cursor, "none", "none")
      h == IF policy = "none" THEN CurH ELSE handle_request_resize(CurH, w, cursor, edges)
  IN /\ ~omp.crashed
     /\ Live(w) /\ windows[w].kind \in RequestingKinds
     /\ Commit_h(h, ev, w, <<>>, FALSE)
     /\ UNCHANGED cursor

\* WindowEventHandler::request_maximize; an X11 window only asks to maximize
RequestMaximize(w, maximize) ==
  LET ev == Event("request_maximize", cursor, IF maximize THEN "on" ELSE "off", "none")
      h == IF policy = "none" THEN CurH
           ELSE handle_request_maximize(CurH, outputs, w, maximize)
  IN /\ ~omp.crashed
     /\ Live(w) /\ windows[w].kind \in RequestingKinds
     /\ windows[w].kind = "xwayland" => maximize
     /\ SerialsInBound(h)
     /\ Commit_h(h, ev, w, <<>>, FALSE)
     /\ UNCHANGED cursor

\* ------------------------------------------------------ output management
\* the configurations a client can send: a position for every output
OutputConfigs == [SeqSet(outputs) -> Points]

\* the test listener: a client asks for a configuration to be tested
OutputTestRequest(config, timer_ok, config_ok) ==
  LET ev == Event("output_test", cursor, "none", "none")
      h == test_output_config(CurH, outputs, config, timer_ok, config_ok)
  IN /\ ~omp.crashed
     /\ Len(outputs) > 0
     /\ Commit_h(h, ev, NULL, <<>>, FALSE)
     /\ UNCHANGED cursor

\* OutputManagementProtocol::apply_pending_test, called by the compositor
ApiApplyPendingTest ==
  LET ev == Event("apply_pending_test", cursor, "none", "none")
  IN /\ ~omp.crashed
     /\ Commit_h(apply_pending_test(CurH), ev, NULL, <<>>, FALSE)
     /\ UNCHANGED cursor

\* OutputManagementProtocol::cancel_pending_test, called by the compositor
ApiCancelPendingTest ==
  LET ev == Event("cancel_pending_test", cursor, "none", "none")
  IN /\ ~omp.crashed
     /\ Commit_h(cancel_pending_test(CurH, outputs), ev, NULL, <<>>, FALSE)
     /\ UNCHANGED cursor

\* the timer of the pending test expires and the event loop runs its callback
TestTimeout(outcome) ==
  LET ev == Event("test_timeout", cursor, "none", "none")
  IN /\ ~omp.crashed
     /\ omp.timer = "armed"
     /\ Commit_h(test_timed_out(CurH, outputs, outcome), ev, NULL, <<>>, FALSE)
     /\ UNCHANGED cursor

\* ------------------------------------------------------ geometry calls
\* Rectangle::overlaps applied to the arguments held in call;
\* overflow_checks tells whether the build checks integer overflow
RectangleOverlaps(overflow_checks) ==
  /\ call.fn = "none"
  /\ call' = [call EXCEPT !.fn = "overlaps",
                          !.overflow_checks = overflow_checks,
                          !.result = overlaps_call(call.self, call.rectangle, overflow_checks)]
  /\ UNCHANGED <<windows, layers, focused_surface, exclusive_client, display_serial,
                 outputs, output_state, policy, seen, fired, last_op,
                 pointer_focus, event_filters, gesture, restore_size, cursor, input, omp>>

\* ------------------------------------------------------ EventOnce calls
\* the handlers a caller may register and the length the list is kept within
EventHandlers == {"a", "b"}
MaxListeners == 3

\* EventOnce::then on the event held in call
EventOnceThen(handler) ==
  /\ ~omp.crashed
  /\ Len(call.listeners) < MaxListeners
  /\ call' = [call EXCEPT !.fn = "then",
                          !.listeners = EventOnce_then(call.listeners, handler)]
  /\ UNCHANGED <<windows, layers, focused_surface, exclusive_client, display_serial,
                 outputs, output_state, policy, seen, fired, last_op,
                 pointer_focus, event_filters, gesture, restore_size, cursor, input, omp>>

\* EventOnce::fire on the event held in call; registered keeps the list
\* the fire found
EventOnceFire ==
  /\ ~omp.crashed
  /\ LET r == EventOnce_fire(call.listeners)
     IN call' = [call EXCEPT !.fn = "fire", !.registered = call.listeners,
                             !.listeners = r.listeners, !.invoked = r.invoked]
  /\ UNCHANGED <<windows, layers, focused_surface, exclusive_client, display_serial,
                 outputs, output_state, policy, seen, fired, last_op,
                 pointer_focus, event_filters, gesture, restore_size, cursor, input, omp>>

\* ------------------------------------------------------------------ Next
ShellLayers == {"Bottom", "Overlay"}
LayerProfiles == {p \in SurfaceProfiles : p.geo.top_left = PointZERO}
X11Profiles == {p \in SurfaceProfiles : p.buf = PointZERO}

Next ==
  \/ set_policy
  \/ \E w \in Windows, parent \in Windows \cup {NULL}, profile \in SurfaceProfiles,
        pg \in PopupGeometries \cup {PointZERO}, client \in Clients, held \in BOOLEAN :
       XdgNewSurface(w, parent, profile, pg, client, held)
  \/ \E w \in Windows, layer \in ShellLayers, o \in Outputs, profile \in LayerProfiles,
        edges \in AnchorChoices, client \in Clients, held \in BOOLEAN :
       LayerNewSurface(w, layer, o, profile, edges, client, held)
  \/ \E w \in Windows, profile \in X11Profiles, client \in Clients, held \in BOOLEAN :
       XwaylandNewSurface(w, profile, client, held)
  \/ \E w \in Windows : map(w)
  \/ \E w \in Windows : unmap(w)
  \/ \E w \in Windows, serial \in 0..MaxSerial, interactive \in BOOLEAN :
       WindowCommit(w, serial, interactive)
  \/ \E w \in Windows : WindowDestroy(w)
  \/ \E w \in Windows : DropWindowRef(w)
  \/ \E w \in Windows, p \in Points : ApiMoveTo(w, p)
  \/ \E w \in Windows, p \in Points, size \in RequestSizes :
       ApiSetExtents(w, Rectangle(p, size))
  \/ \E w \in Windows : ApiFocusWindow(w)
  \/ ApiBlur
  \/ \E client \in Clients \cup {NULL} : set_exclusive_client(client)
  \/ \E o \in Outputs, p \in Points, size \in OutputSizes, mode_ok \in BOOLEAN :
       new_output(o, p, size, mode_ok)
  \/ \E o \in Outputs : OutputDestroy(o)
  \/ \E o \in Outputs, p \in Points, size \in OutputSizes : OutputLayoutChange(o, p, size)
  \/ \E f \in UserFilters : add_event_filter(f)
  \/ \E key \in Keys, state \in {"Pressed", "Released"}, answers \in [UserFilters -> BOOLEAN] :
       KeyboardKey(key, state, answers)
  \/ \E answers \in [UserFilters -> BOOLEAN] : PointerAxis(answers)
  \/ \E state \in {"Pressed", "Released"}, answers \in [UserFilters -> BOOLEAN],
        freed \in FreedReads \cup {NoFreed} : PointerButtonFreed(state, answers, freed)
  \/ \E fx \in 0..(FUnit * MaxCoord + 1), fy \in 0..(FUnit * MaxCoord + 1),
        answers \in [UserFilters -> BOOLEAN], freed \in FreedReads \cup {NoFreed} :
       PointerMotionFreed(FPoint(fx, fy), answers, freed)
  \/ \E w \in Windows : RequestMove(w)
  \/ \E w \in Windows, edges \in SUBSET WindowEdge : RequestResize(w, edges)
  \/ \E w \in Windows, maximize \in BOOLEAN : RequestMaximize(w, maximize)
  \/ \E w \in Windows, serial \in 0..MaxConfigures :
       WindowCommitAs(w, serial, windows[w].keyboard_interactive, windows[w].requested_size)
  \/ \E config \in OutputConfigs, timer_ok \in BOOLEAN, config_ok \in BOOLEAN :
       OutputTestRequest(config, timer_ok, config_ok)
  \/ ApiApplyPendingTest
  \/ ApiCancelPendingTest
  \/ \E outcome \in TimerOutcomes : TestTimeout(outcome)
  \/ \E overflow_checks \in BOOLEAN : RectangleOverlaps(overflow_checks)

Spec == Init /\ [][Next]_vars

\* ------------------------------------------------- restricted environments
\* The same handlers under environments that exercise one concern each, so
\* that every reachable state of the concern is explored.
PlainProfile == [geo |-> Rectangle(PointZERO, Size(1, 1)), buf |-> PointZERO]

\* Window geometry: creation of every surface variant, configure/commit and
\* the positioning API
NextGeometry ==
  \/ set_policy
  \/ \E w \in Windows, profile \in SurfaceProfiles :
       XdgNewSurface(w, NULL, profile, PointZERO, 1, TRUE)
  \/ \E w \in Windows, parent \in Windows, pg \in PopupGeometries :
       XdgNewSurface(w, parent, PlainProfile, pg, 1, TRUE)
  \/ \E w \in Windows, edges \in AnchorChoices :
       LayerNewSurface(w, "Top", 1, PlainProfile, edges, 1, TRUE)
  \/ \E w \in Windows : XwaylandNewSurface(w, PlainProfile, 1, TRUE)
  \/ \E w \in Windows, serial \in 0..MaxSerial :
       WindowCommit(w, serial, windows[w].keyboard_interactive)
  \/ \E w \in Windows, p \in Points : ApiMoveTo(w, p)
  \/ \E w \in Windows, p \in Points, size \in RequestSizes :
       ApiSetExtents(w, Rectangle(p, size))
  \/ \E size \in OutputSizes : new_output(1, PointZERO, size, TRUE)

SpecGeometry == Init /\ [][NextGeometry]_vars

\* Stacking, focus and window lifetime
NextFocus ==
  \/ set_policy
  \/ \E w \in Windows, parent \in Windows \cup {NULL},
        pg \in PopupGeometries \cup {PointZERO}, client \in Clients, held \in BOOLEAN :
       XdgNewSurface(w, parent, PlainProfile, pg, client, held)
  \/ \E w \in Windows, layer \in ShellLayers, edges \in AnchorChoices,
        client \in Clients, held \in BOOLEAN :
       LayerNewSurface(w, layer, 1, PlainProfile, edges, client, held)
  \/ \E w \in Windows, client \in Clients, held \in BOOLEAN :
       XwaylandNewSurface(w, PlainProfile, client, held)
  \/ \E w \in Windows : map(w)
  \/ \E w \in Windows : unmap(w)
  \/ \E w \in Windows, interactive \in BOOLEAN :
       WindowCommit(w, IF windows[w].kind = "xwayland" THEN CONFIGURE_SERIAL ELSE 0,
                    interactive)
  \/ \E w \in Windows : WindowDestroy(w)
  \/ \E w \in Windows : DropWindowRef(w)
  \/ \E w \in Windows : ApiFocusWindow(w)
  \/ ApiBlur
  \/ \E size \in OutputSizes : new_output(1, PointZERO, size, TRUE)

SpecFocus == Init /\ [][NextFocus]_vars

\* Output lifetime and the windows' output membership
NextOutputs ==
  \/ set_policy
  \/ \E w \in Windows : XdgNewSurface(w, NULL, PlainProfile, PointZERO, 1, TRUE)
  \/ \E w \in Windows, o \in Outputs, edges \in AnchorChoices :
       LayerNewSurface(w, "Top", o, PlainProfile, edges, 1, TRUE)
  \/ \E w \in Windows : map(w)
  \/ \E w \in Windows : unmap(w)
  \/ \E w \in Windows : WindowCommit(w, 0, windows[w].keyboard_interactive)
  \/ \E w \in Windows : WindowDestroy(w)
  \/ \E o \in Outputs, p \in Points, size \in OutputSizes, mode_ok \in BOOLEAN :
       new_output(o, p, size, mode_ok)
  \/ \E o \in Outputs : OutputDestroy(o)
  \/ \E o \in Outputs, p \in Points, size \in OutputSizes : OutputLayoutChange(o, p, size)

SpecOutputs == Init /\ [][NextOutputs]_vars

\* Input events on their way through the event filters to the clients
FPositions == {FPoint(fx, 0) : fx \in 0..(FUnit * MaxCoord + 1)}
FilterAnswers == [UserFilters -> BOOLEAN]

\* every window the handler leaves behind lies within the modelled arena
CoordsInBound(h) ==
  \A w \in Windows :
    /\ h.st.windows[w].top_left.x \in (0 - MaxCoord)..(2 * MaxCoord)
    /\ h.st.windows[w].geo.size.width \in 0..(MaxCoord + 2)

NextInput ==
  \/ \E f \in UserFilters : add_event_filter(f)
  \/ set_policy
  \/ XdgNewSurface(1, NULL, PlainProfile, PointZERO, 1, TRUE)
  \/ \E key \in {"ctrl_escape", "other"}, state \in {"Pressed", "Released"},
        answers \in FilterAnswers : KeyboardKey(key, state, answers)
  \/ \E answers \in FilterAnswers : PointerAxis(answers)
  \/ \E state \in {"Pressed", "Released"}, answers \in FilterAnswers :
       PointerButton(state, answers)
  \/ \E position \in FPositions, answers \in FilterAnswers :
       /\ PointerMotion(position, answers)
       /\ CoordsInBound([st |-> [windows |-> windows']])
  \/ RequestMove(1)

SpecInput == Init /\ [][NextInput]_vars

\* Interactive move: a focused toplevel or X11 window, the pointer along one
\* axis, and the request that starts the gesture
NoAnswers == [f \in UserFilters |-> FALSE]
ShadowProfile == [geo |-> Rectangle(Point(1, 0), Size(1, 1)), buf |-> PointZERO]

NextMove ==
  \/ set_policy
  \/ \E profile \in {PlainProfile, ShadowProfile} :
       XdgNewSurface(1, NULL, profile, PointZERO, 1, TRUE)
  \/ XwaylandNewSurface(1, PlainProfile, 1, TRUE)
  \/ \E state \in {"Pressed", "Released"} : PointerButton(state, NoAnswers)
  \/ \E position \in FPositions :
       /\ PointerMotion(position, NoAnswers)
       /\ CoordsInBound([st |-> [windows |-> windows']])
  \/ RequestMove(1)

SpecMove == Init /\ [][NextMove]_vars

\* Interactive resize: the pointer in both axes, the edge masks a client can
\* send, and the client's commits
ResizePositions == {FPointZERO, FPoint(FUnit + 1, 0), FPoint(FUnit + 1, FUnit)}
ResizeEdges == {{}, {"RIGHT", "BOTTOM"}, WindowEdge}

\* every window lies within the modelled arena, in both axes
ArenaBound(ws) ==
  \A w \in Windows :
    /\ ws[w].geo.size.width \in 0..(MaxCoord + 1)
    /\ ws[w].geo.size.height \in 0..(MaxCoord + 1)
    /\ \A s \in DOMAIN ws[w].pending_updates :
         /\ ws[w].pending_updates[s].x \in (0 - MaxCoord)..MaxCoord
         /\ ws[w].pending_updates[s].y \in (0 - MaxCoord)..MaxCoord

NextResize ==
  \/ set_policy
  \/ XdgNewSurface(1, NULL, PlainProfile, PointZERO, 1, TRUE)
  \/ XwaylandNewSurface(1, PlainProfile, 1, TRUE)
  \/ \E serial \in 0..MaxConfigures : WindowCommit(1, serial, FALSE)
  \/ \E state \in {"Pressed", "Released"} : PointerButton(state, NoAnswers)
  \/ \E position \in ResizePositions :
       /\ PointerMotion(position, NoAnswers)
       /\ ArenaBound(windows')
  \/ \E edges \in ResizeEdges : RequestResize(1, edges)

SpecResize == Init /\ [][NextResize]_vars

\* The gesture slot: a toplevel that becomes focused when clicked, its move
\* and resize requests, the pointer, the client's commits and the window's
\* destruction
GesturePositions == {FPointZERO, FPoint(FUnit, 0)}
GestureEdges == {{}, {"RIGHT"}}

NextGesture ==
  \/ set_policy
  \/ XdgNewSurface(1, NULL, PlainProfile, PointZERO, 1, FALSE)
  \/ WindowDestroy(1)
  \/ \E serial \in 0..MaxConfigures : WindowCommit(1, serial, FALSE)
  \/ \E state \in {"Pressed", "Released"}, freed \in FreedReads :
       PointerButtonFreed(state, NoAnswers, freed)
  \/ \E position \in GesturePositions, freed \in FreedReads :
       /\ PointerMotionFreed(position, NoAnswers, freed)
       /\ ArenaBound(windows')
       /\ CoordsInBound([st |-> [windows |-> windows']])
  \/ RequestMove(1)
  \/ \E edges \in GestureEdges : RequestResize(1, edges)

SpecGesture == Init /\ [][NextGesture]_vars

\* Requests of focused and unfocused clients: two toplevels, one output, the
\* click that focuses, and the move, resize and maximize requests
NextRequests ==
  \/ set_policy
  \/ new_output(1, PointZERO, Size(1, 1), TRUE)
  \/ \E w \in Windows : XdgNewSurface(w, NULL, PlainProfile, PointZERO, 1, FALSE)
  \/ \E w \in Windows : WindowCommit(w, display_serial, FALSE)
  \/ PointerButton("Pressed", NoAnswers)
  \/ \E w \in Windows : RequestMove(w)
  \/ \E w \in Windows, edges \in GestureEdges : RequestResize(w, edges)
  \/ \E w \in Windows : RequestMaximize(w, TRUE)

SpecRequests == Init /\ [][NextRequests]_vars

\* Placement by the policy: outputs of several sizes and positions, one
\* toplevel or X11 window becoming ready, maximize and restore requests and
\* the client's commits, with or without adopting the configured size
WideProfile == [geo |-> Rectangle(PointZERO, Size(2, 1)), buf |-> PointZERO]
PlacementOutputSizes == {Size(1, 1), Size(4, 1), Size(F32Exact + 4, 1)}
CommitSizes(w) ==
  {windows[w].geo.size} \cup
    (IF windows[w].kind = "xdg_toplevel" /\ windows[w].requested_size # Size(0, 0)
     THEN {windows[w].requested_size} ELSE {})

NextPlacement ==
  \/ set_policy
  \/ \E o \in Outputs, p \in Points, size \in PlacementOutputSizes : new_output(o, p, size, TRUE)
  \/ \E profile \in {PlainProfile, WideProfile} :
       XdgNewSurface(1, NULL, profile, PointZERO, 1, TRUE)
  \/ XwaylandNewSurface(1, PlainProfile, 1, TRUE)
  \/ map(1)
  \/ \E maximize \in BOOLEAN : RequestMaximize(1, maximize)
  \/ \E serial \in 0..MaxConfigures, size \in CommitSizes(1) :
       WindowCommitAs(1, serial, FALSE, size)

SpecPlacement == Init /\ [][NextPlacement]_vars

\* Output configuration tests: outputs, the client's test requests, the
\* compositor's answers and the timer
NextOutputTest ==
  \/ \E o \in Outputs, p \in Points, size \in OutputSizes : new_output(o, p, size, TRUE)
  \/ \E config \in OutputConfigs, timer_ok \in BOOLEAN, config_ok \in BOOLEAN :
       OutputTestRequest(config, timer_ok, config_ok)
  \/ ApiApplyPendingTest
  \/ ApiCancelPendingTest
  \/ \E outcome \in TimerOutcomes : TestTimeout(outcome)
  \/ XdgNewSurface(1, NULL, PlainProfile, PointZERO, 1, TRUE)
  \/ map(1)

SpecOutputTest == Init /\ [][NextOutputTest]_vars

\* One-shot events: a free-standing EventOnce and the on_destroy events of
\* the outputs
NextEventOnce ==
  \/ set_policy
  \/ \E handler \in EventHandlers : EventOnceThen(handler)
  \/ EventOnceFire
  \/ \E o \in Outputs, p \in Points : new_output(o, p, Size(1, 1), TRUE)
  \/ \E o \in Outputs : OutputDestroy(o)
  \/ \E o \in Outputs : OutputDestroyAgain(o)

SpecEventOnce == Init /\ [][NextEventOnce]_vars

\* Rectangle::overlaps of a rectangle with itself, over coordinates and
\* sizes at the ends and in the middle of the i32 range
I32Samples == {MinI32, 0 - 1, 0, 1, 2, MaxI32}
RectInputs ==
  {Rectangle(Point(x, y), Size(w, h)) : x \in I32Samples, y \in {0 - 1, 0, MaxI32},
                                        w \in I32Samples, h \in I32Samples}

InitRect ==
  /\ InitCompositor
  /\ \E r \in RectInputs : call = [NoCall EXCEPT !.self = r, !.rectangle = r]

NextRect == \E overflow_checks \in BOOLEAN : RectangleOverlaps(overflow_checks)

\* Output membership: toplevels and popups are created, moved and
\* committed while outputs come, move and go
NextMembership ==
  \/ \E w \in Windows : XdgNewSurface(w, NULL, PlainProfile, PointZERO, 1, FALSE)
  \/ \E w \in Windows, parent \in Windows, pg \in PopupGeometries \cup {PointZERO} :
       XdgNewSurface(w, parent, PlainProfile, pg, 1, FALSE)
  \/ \E w \in Windows : map(w)
  \/ \E w \in Windows : unmap(w)
  \/ \E w \in Windows : WindowCommit(w, 0, FALSE)
  \/ \E w \in Windows, p \in Points : ApiMoveTo(w, p)
  \/ \E w \in Windows : WindowDestroy(w)
  \/ \E o \in Outputs, p \in Points : new_output(o, p, Size(1, 1), TRUE)
  \/ \E o \in Outputs : OutputDestroy(o)
  \/ \E o \in Outputs, p \in Points : OutputLayoutChange(o, p, Size(1, 1))

SpecMembership == Init /\ [][NextMembership]_vars

\* Hit testing: toplevels and layer surfaces are created, moved (as far as
\* the end of the i32 range) and focused, and callers ask for the window
\* at a point
HitPoints == {PointZERO, Point(1, 0), Point(MaxI32, 0)}
NextHitTest ==
  \/ \E w \in Windows : XdgNewSurface(w, NULL, PlainProfile, PointZERO, 1, FALSE)
  \/ \E w \in Windows, layer \in {"Bottom", "Top"} :
       LayerNewSurface(w, layer, 1, PlainProfile, {"TOP", "LEFT"}, 1, FALSE)
  \/ new_output(1, PointZERO, Size(1, 1), TRUE)
  \/ \E w \in Windows, p \in HitPoints : ApiMoveTo(w, p)
  \/ \E w \in Windows : ApiFocusWindow(w)
  \/ \E point \in HitPoints, overflow_checks \in BOOLEAN : WindowAt(point, overflow_checks)

SpecHitTest == Init /\ [][NextHitTest]_vars

\* Callbacks that cause callbacks: a policy that closes a popup from inside
\* advise_configured_window
NextReentrancy ==
  \/ set_policy
  \/ \E w \in Windows : XdgNewSurface(w, NULL, PlainProfile, PointZERO, 1, FALSE)
  \/ \E w \in Windows, parent \in Windows, pg \in PopupGeometries :
       XdgNewSurface(w, parent, PlainProfile, pg, 1, FALSE)
  \/ \E w \in Windows, p \in Points : ApiMoveTo(w, p)
  \/ \E w \in Windows : WindowCommit(w, 0, FALSE)
  \/ \E w \in Windows : WindowDestroy(w)
  \/ \E w \in Windows, c \in Windows : PolicyAsksPopupToClose(w, 0, c)

SpecReentrancy == Init /\ [][NextReentrancy]_vars

\* The seat under input inhibit: windows of two clients are created, moved,
\* focused through the API and through the pointer, while the inhibit is
\* activated and deactivated
SeatClients == 1..(MaxClients + 1)
NextSeat ==
  \/ \E w \in Windows, client \in SeatClients :
       XdgNewSurface(w, NULL, PlainProfile, PointZERO, client, FALSE)
  \/ \E w \in Windows, p \in Points : ApiMoveTo(w, p)
  \/ \E w \in Windows : ApiFocusWindow(w)
  \/ ApiBlur
  \/ \E client \in SeatClients \cup {NULL} : set_exclusive_client(client)
  \/ PointerButton("Pressed", NoAnswers)
  \/ \E position \in FPositions : PointerMotion(position, NoAnswers)
  \/ \E w \in Windows : WindowDestroy(w)

SpecSeat == Init /\ [][NextSeat]_vars

SpecRect == InitRect /\ [][NextRect]_vars

\* Rectangle::overlaps of two rectangles: apart, touching along an edge or
\* at a corner, crossing, nested, of zero or negative size, and at the end
\* of the i32 range
PairRectangles ==
  {Rectangle(Point(x, y), Size(w, h)) : x \in {0 - 1, 0, 1, MaxI32}, y \in {0, 1},
                                        w \in {0 - 1, 0, 1, 2}, h \in {0, 1, 2}}

InitRectPair ==
  /\ InitCompositor
  /\ \E a \in PairRectangles, b \in PairRectangles :
       call = [NoCall EXCEPT !.self = a, !.rectangle = b]

SpecRectPair == InitRectPair /\ [][NextRect]_vars

\* ------------------------------------------------------------------ claims
\* The window a step's operation acted on
OpOn(op, w) == last_op.op = op /\ last_op.id = w

C2_SetExtentsDeferred ==
  [][\A w \in Windows :
       /\ (last_op'.op = "set_extents" /\ last_op'.id = w) =>
             /\ windows'[w].top_left = windows[w].top_left
             /\ extents(windows', layers', w).top_left = extents(windows, layers, w).top_left
             /\ windows'[w].outputs = windows[w].outputs
             /\ last_op'.serial \in DOMAIN windows'[w].pending_updates
             /\ windows'[w].pending_updates[last_op'.serial] = last_op'.point
             /\ layers' = layers /\ focused_surface' = focused_surface /\ fired' = <<>>
       /\ \A s \in DOMAIN windows[w].pending_updates :
             (windows'[w].status = "live" /\ s \notin DOMAIN windows'[w].pending_updates)
               => (last_op'.op = "commit" /\ last_op'.id = w /\ last_op'.serial = s)
    ]_vars

\* C2 witness: a window lying on an output has been asked to take extents
\* whose top-left is off that output, and has not moved
C2_Witness ==
  \E w \in Windows :
    /\ OpOn("set_extents", w) /\ last_op.point = Point(1, 0)
    /\ windows[w].top_left = PointZERO /\ windows[w].outputs = <<1>>
    /\ last_op.serial \in DOMAIN windows[w].pending_updates

\* C3 as stated: for every surface variant, after move_to(P) on a window
\* without a parent and without a buffer displacement,
\* extents().top_left() = P
C3_Original ==
  \A w \in Windows :
    (/\ OpOn("move_to", w)
     /\ parent_wlr_surface(windows[w]) = NULL
     /\ buffer_displacement(windows[w]) = DisplacementZERO)
      => extents(windows, layers, w).top_left = last_op.point

\* C4: a window's layer never changes while the window lives; a window is
\* found only in the sequence of its own layer (and at most once); a
\* focus_window step leaves every other layer untouched and keeps the
\* members of the window's layer, changing at most their order.
C4_LayerIsFixed ==
  /\ [](\A w \in Windows, l \in WindowLayer :
          SeqHas(layers[l], w) =>
            /\ windows[w].status = "live" /\ windows[w].layer = l
            /\ SeqCount(layers[l], w) = 1)
  /\ [][\A w \in Windows :
          /\ (windows[w].status = "live" /\ windows'[w].status = "live")
                => windows'[w].layer = windows[w].layer
          /\ (last_op'.op = "focus_window" /\ last_op'.id = w) =>
                \A l \in WindowLayer :
                  /\ l # windows[w].layer => layers'[l] = layers[l]
                  /\ SeqSet(layers'[l]) = SeqSet(layers[l])
                  /\ Len(layers'[l]) = Len(layers[l])
       ]_vars

\* C4 witness: focus_window has raised a layer-shell window above another
\* window of the same non-Normal layer
C4_Witness ==
  \E w \in Windows :
    /\ OpOn("focus_window", w) /\ last_op.flag /\ focused_surface = w
    /\ windows[w].kind = "layer" /\ windows[w].layer = "Overlay"
    /\ Len(layers["Overlay"]) = 2 /\ layers["Overlay"][2] = w

\* C5 as stated: while advise_delete_window runs for a window, the window is
\* no longer enumerable through windows()
C5_Original ==
  seen.cb = "advise_delete_window" => ~seen.enumerable

\* C7: after its destroy handler has run a window is absent from windows()
\* and the library holds no strong reference to it; before that the window
\* manager keeps it alive (it is enumerable and strongly referenced by the
\* library) even when every external reference has been dropped.
C7_LifetimeFollowsDestroy ==
  \A w \in Windows :
    /\ windows[w].status = "destroyed" =>
          /\ ~SeqHas(all_windows(layers), w)
          /\ LibraryRefs(windows, layers, w) = 0
          /\ focused_surface # w
    /\ windows[w].status = "live" =>
          /\ SeqHas(all_windows(layers), w)
          /\ LibraryRefs(windows, layers, w) >= 1
          /\ Upgradable(windows, layers, w)

\* C7 witness: one layer-shell window has been destroyed, and another window
\* is still alive although its external reference is gone
C7_Witness ==
  \E w, v \in Windows :
    /\ windows[w].status = "destroyed" /\ ~windows[w].held
    /\ windows[v].status = "live" /\ ~windows[v].held /\ windows[v].kind = "layer"

\* C9: focus_window on a window that cannot receive focus returns without
\* changing the keyboard focus, the activated state of any window, or the
\* order of any layer.
C9_UnfocusableIsIgnored ==
  [][(last_op'.op = "focus_window" /\ ~last_op'.flag) =>
       /\ focused_surface' = focused_surface
       /\ \A v \in Windows : windows'[v].activated = windows[v].activated
       /\ layers' = layers
       /\ windows' = windows
    ]_vars

\* C9 witness: focus_window was called on a layer-shell window that is not
\* keyboard-interactive while another window held the focus and was activated
C9_Witness ==
  \E w, v \in Windows :
    /\ OpOn("focus_window", w) /\ ~last_op.flag
    /\ windows[w].kind = "layer" /\ ~windows[w].keyboard_interactive
    /\ v # w /\ focused_surface = v /\ windows[v].activated

\* C6 as stated: when an output is destroyed while a window lists only that
\* output, on_left_output fires exactly once for it and the window's
\* outputs() is empty before advise_output_delete is dispatched, so that the
\* policy never observes a window still listing the deleted output
C6_Original ==
  [][\A o \in Outputs, w \in Windows :
       (/\ policy # "none"
        /\ windows[w].status = "live" /\ windows[w].mapped
        /\ windows[w].outputs = <<o>>
        /\ output_state[o].status = "live" /\ output_state'[o].status = "destroyed")
         => /\ seen'.cb = "advise_output_delete" /\ seen'.id = o
            /\ seen'.listed_by = {}
            /\ fired' = << <<"left", w, o>> >>
    ]_vars

\* C8 as stated: outputs() holds exactly the successfully added, not yet
\* destroyed outputs in discovery order; a destroyed output is absent from
\* it, its config subscription is removed and the library retains no strong
\* reference to it
C8_Original ==
  /\ SeqSet(outputs) = {o \in Outputs : output_state[o].status = "live"}
  /\ \A i, j \in 1..Len(outputs) : i < j => outputs[i] < outputs[j]
  /\ \A o \in Outputs :
        output_state[o].status = "destroyed" =>
          /\ ~SeqHas(outputs, o)
          /\ ~output_state[o].subscribed
          /\ OutputRefs(windows, outputs, output_state, o) = 0

\* C8, the registry alone: membership, order, subscription and the output
\* manager's own references behave as stated
C8_Registry ==
  /\ SeqSet(outputs) = {o \in Outputs : output_state[o].status = "live"}
  /\ \A i, j \in 1..Len(outputs) : i < j => outputs[i] < outputs[j]
  /\ \A o \in Outputs :
        output_state[o].status = "destroyed" =>
          /\ ~SeqHas(outputs, o)
          /\ ~output_state[o].subscribed
          /\ output_state[o].on_destroy = 0

FilteredKinds == {"key", "motion", "button", "axis"}

\* C11: for each input event the filters are called in the order they were
\* added (the filters reached are a prefix of event_filters), dispatch stops
\* at the first filter that returns true (every filter reached before the
\* last one returned false, and when none returned true all were reached),
\* and the manager reports the event handled iff some filter returned true.
C11_FirstFilterWins ==
  input.kind \in FilteredKinds =>
    /\ Len(input.called) <= Len(event_filters)
    /\ \A i \in 1..Len(input.called) :
          /\ input.called[i][1] = event_filters[i]
          /\ i < Len(input.called) => ~input.called[i][2]
    /\ input.handled <=> \E i \in 1..Len(input.called) : input.called[i][2]
    /\ ~input.handled => Len(input.called) = Len(event_filters)

\* C11 witness: of three registered filters the second returned true for an
\* event, and the third, the policy, was not called
C11_Witness ==
  /\ input.kind \in FilteredKinds /\ input.handled
  /\ Len(event_filters) = 3 /\ event_filters[3] = "policy"
  /\ Len(input.called) = 2

\* C12 as stated: for key, motion, button and axis events alike, an event
\* that a filter handled is notified to no client surface and causes no
\* click-to-focus
C12_Original ==
  (input.kind \in FilteredKinds /\ input.handled) =>
    /\ \A i \in 1..Len(input.notified) : input.notified[i][2] = NULL
    /\ \A i \in 1..Len(input.calls) : input.calls[i][1] # "focus_window"

\* C12, the events for which the handler consults the filters first: a
\* handled key, button or axis event reaches no client and moves no focus
C12_KeyButtonAxis ==
  (input.kind \in {"key", "button", "axis"} /\ input.handled) =>
    /\ input.notified = <<>>
    /\ \A i \in 1..Len(input.calls) : input.calls[i][1] # "focus_window"

\* the step delivers an event of the given kind and the policy's filter is
\* reached
PolicySaw(kind) ==
  /\ input'.kind = kind
  /\ \E i \in 1..Len(input'.called) : input'.called[i][1] = "policy"

\* C13: a pointer-button release delivered while no gesture is active is a
\* no-op for the gesture layer: the handler completes, the gesture slot
\* stays empty, no window's extents or flags change, the policy makes no
\* call, and the event is reported as not consumed.
C13_ReleaseWithoutGesture ==
  [][(gesture = NoGesture /\ PolicySaw("button") /\ input'.state = "Released")
       => /\ gesture' = NoGesture
          /\ windows' = windows /\ layers' = layers
          /\ input'.calls = <<>>
          /\ input'.called[Len(input'.called)] = <<"policy", FALSE>>
          /\ ~input'.handled
          /\ ~omp'.crashed]_vars

\* C13 witness: a release reached the policy while a focused window existed
\* and no gesture was active, and it was passed on
C13_Witness ==
  /\ input.kind = "button" /\ input.state = "Released"
  /\ input.called = << <<"policy", FALSE>> >>
  /\ gesture = NoGesture
  /\ focused_surface = 1 /\ windows[1].status = "live"

\* C14 as stated: while a Move gesture with drag point d is active, a
\* pointer motion at p invokes move_to(p - d) on the gesture's window and is
\* consumed; and a motion at the position the cursor had when the move was
\* requested leaves the window's extents unchanged.
C14_Original ==
  [][(gesture.kind = "move" /\ PolicySaw("motion"))
       => /\ input'.calls =
               << <<"move_to", gesture.window,
                    FromFPoint(FPointSub(input'.position, gesture.drag_point))>> >>
          /\ input'.handled
          /\ gesture' = gesture
          /\ (input.kind = "request_move" /\ input'.position = cursor)
               => extents(windows', layers', gesture.window)
                    = extents(windows, layers, gesture.window)]_vars

\* C14, the part the code keeps: every motion during a Move gesture invokes
\* move_to(p - d) and is consumed, and a toplevel does not jump when the
\* pointer has not moved since the request
C14_MoveToAndWaylandNoSnap ==
  [][(gesture.kind = "move" /\ PolicySaw("motion"))
       => /\ input'.calls =
               << <<"move_to", gesture.window,
                    FromFPoint(FPointSub(input'.position, gesture.drag_point))>> >>
          /\ input'.handled
          /\ gesture' = gesture
          /\ (/\ input.kind = "request_move" /\ input'.position = cursor
              /\ windows[gesture.window].kind = "xdg_toplevel")
               => extents(windows', layers', gesture.window)
                    = extents(windows, layers, gesture.window)]_vars

\* C15: while a Resize gesture is active, each pointer motion requests, via
\* set_extents, the extents computed from the snapshot taken at request time
\* and the displacement (truncated toward zero) from the originating cursor
\* position: TOP moves top_left.y and shrinks the height, otherwise BOTTOM
\* grows the height; LEFT moves top_left.x and shrinks the width, otherwise
\* RIGHT grows the width; axes outside the mask keep the snapshot's values.
\* The gesture is left as it was, so the request depends on the current
\* position only, and the event is consumed.
C15_ResizeFromSnapshot ==
  [][(gesture.kind = "resize" /\ PolicySaw("motion"))
       => LET e == gesture.original_extents
              m == gesture.edges
              dx == TruncDiv(input'.position.fx - gesture.cursor_position.fx, FUnit)
              dy == TruncDiv(input'.position.fy - gesture.cursor_position.fy, FUnit)
              expected ==
                Rectangle(
                  Point(IF "LEFT" \in m THEN e.top_left.x + dx ELSE e.top_left.x,
                        IF "TOP" \in m THEN e.top_left.y + dy ELSE e.top_left.y),
                  Size(IF "LEFT" \in m THEN e.size.width - dx
                       ELSE IF "RIGHT" \in m THEN e.size.width + dx ELSE e.size.width,
                       IF "TOP" \in m THEN e.size.height - dy
                       ELSE IF "BOTTOM" \in m THEN e.size.height + dy ELSE e.size.height))
          IN /\ input'.calls = << <<"set_extents", gesture.window, expected>> >>
             /\ input'.handled
             /\ gesture' = gesture]_vars

\* C15 witness: the second motion of a Resize gesture whose mask has all
\* four bits, on a toplevel with two configures outstanding; the request
\* moved the top-left corner in both axes
C15_Witness ==
  /\ input.kind = "motion" /\ input.handled
  /\ gesture.kind = "resize" /\ gesture.edges = WindowEdge
  /\ Len(input.calls) = 1 /\ input.calls[1][1] = "set_extents"
  /\ input.calls[1][3].top_left.x # gesture.original_extents.top_left.x
  /\ input.calls[1][3].top_left.y # gesture.original_extents.top_left.y
  /\ windows[gesture.window].kind = "xdg_toplevel"
  /\ Cardinality(DOMAIN windows[gesture.window].pending_updates) = 2

\* the step is the map of window w under a registered policy
ReadyStep(w) ==
  /\ policy # "none"
  /\ windows[w].status = "live" /\ ~windows[w].mapped /\ windows'[w].mapped

\* o + (S - s) / 2 in integers, the quotient truncated toward zero
Centered(o, S, s) ==
  Point(o.x + TruncDiv(S.width - s.width, 2), o.y + TruncDiv(S.height - s.height, 2))

\* C16 as stated: when a focusable window of size s becomes ready on an
\* output with top-left o and size S, the policy moves it to
\* o + (S - s) / 2, truncated toward zero, and focuses it; the window ends
\* with its extents' top-left there.
C16_Original ==
  [][\A w \in Windows :
       LET o == output_for_window(Cur, outputs, output_state, w)
           target == Centered(output_state[o].top_left, output_state[o].size,
                              extents(windows, layers, w).size)
       IN (ReadyStep(w) /\ can_receive_focus(windows[w]) /\ o # NULL
           /\ buffer_displacement(windows[w]) = DisplacementZERO)
            => /\ windows'[w].top_left = target
               /\ focused_surface' = w
               /\ extents(windows', layers', w).top_left = target]_vars

\* C16, the part the code keeps: a toplevel whose size differs from the
\* output's by at most 2^24 in either axis is centered exactly and focused
C16_ToplevelCentered ==
  [][\A w \in Windows :
       LET o == output_for_window(Cur, outputs, output_state, w)
           S == output_state[o].size
           s == extents(windows, layers, w).size
           target == Centered(output_state[o].top_left, S, s)
       IN (/\ ReadyStep(w) /\ windows[w].kind = "xdg_toplevel" /\ o # NULL
           /\ S.width - s.width \in (0 - F32Exact)..F32Exact
           /\ S.height - s.height \in (0 - F32Exact)..F32Exact)
            => /\ windows'[w].top_left = target
               /\ focused_surface' = w
               /\ extents(windows', layers', w).top_left = target]_vars

\* the step is the commit by which w's client takes the configure that the
\* request handled just before sent: the serial is that configure's, the
\* pending position is replayed, and a toplevel's client presents the size
\* it was sent
AnswersRequest(w, state) ==
  /\ input.kind = "request_maximize" /\ input.id = w /\ input.state = state
  /\ \E i \in 1..Len(input.calls) : input.calls[i][1] = "set_extents"
  /\ last_op'.op = "commit" /\ last_op'.id = w /\ last_op'.flag
  /\ last_op'.serial = (IF windows[w].kind = "xdg_toplevel" THEN display_serial
                        ELSE CONFIGURE_SERIAL)
  /\ windows[w].kind = "xdg_toplevel" => windows'[w].geo.size = windows[w].requested_size

OutputBounds == {output_extents(output_state, outputs[i]) : i \in 1..Len(outputs)}

\* C17 as stated: a window with extents E that is maximized has, once its
\* client commits the configure, the bounds of an output as its extents;
\* when it is then restored, its extents are E again once the client
\* commits (no other resize happens in between).
C17_Original ==
  [][\A w \in Windows :
       /\ AnswersRequest(w, "on") => extents(windows', layers', w) \in OutputBounds
       /\ AnswersRequest(w, "off") => extents(windows', layers', w) = restore_size[w]]_vars

\* C17, the part the code keeps: the round trip of an XDG toplevel
C17_ToplevelRoundTrip ==
  [][\A w \in Windows :
       windows[w].kind = "xdg_toplevel" =>
         /\ AnswersRequest(w, "on") => extents(windows', layers', w) \in OutputBounds
         /\ AnswersRequest(w, "off") => extents(windows', layers', w) = restore_size[w]]_vars

\* a restore was answered by a toplevel that had been maximized onto an
\* output larger than itself and away from its position
C17_ToplevelRestored ==
  /\ last_op.op = "commit" /\ last_op.flag /\ last_op.serial = MaxConfigures
  /\ windows[1].kind = "xdg_toplevel"
  /\ 1 \in DOMAIN restore_size /\ extents(windows, layers, 1) = restore_size[1]
  /\ restore_size[1] \notin OutputBounds
  /\ "maximized" \notin windows[1].current

\* C18: when mode negotiation fails for a newly reported output, the handle
\* is destroyed and nothing else happens: the output joins neither
\* outputs() nor the layout, on_new_output does not fire, the policy is not
\* advised, and the registered outputs and the windows are as before.
C18_FailedModeIsContained ==
  [][\A o \in Outputs :
       (/\ last_op'.op = "new_output" /\ last_op'.id = o /\ ~last_op'.flag
        /\ output_state[o].status = "none")
         => /\ output_state' = [output_state EXCEPT ![o].status = "failed"]
            /\ outputs' = outputs /\ ~SeqHas(outputs', o)
            /\ fired' = <<>>
            /\ seen' = NoSeen
            /\ windows' = windows /\ layers' = layers
            /\ focused_surface' = focused_surface]_vars

\* C18 witness: the second output failed its mode negotiation while a policy
\* was registered and a mapped window lay on the first output
C18_Witness ==
  /\ last_op.op = "new_output" /\ ~last_op.flag /\ last_op.id = 2
  /\ output_state[2].status = "failed" /\ outputs = <<1>>
  /\ policy # "none"
  /\ \E w \in Windows : windows[w].mapped /\ windows[w].outputs = <<1>>

OutputTestEnders == {"apply_pending_test", "cancel_pending_test", "test_timeout"}

\* the step re-applies the configuration captured when the test started and
\* tells the client that the tested one failed
Reverted ==
  /\ \A o \in DOMAIN omp.old_config :
       output_state[o].status = "live" => output_state'[o].top_left = omp.old_config[o]
  /\ input'.notified # <<>> /\ input'.notified[1] = <<"send_failed", omp.new_config>>
  /\ ~omp'.pending

\* a call that found nothing to do
Refused ==
  /\ input'.result = "Err"
  /\ omp' = omp /\ output_state' = output_state /\ windows' = windows

\* C19 as stated: a pending output test ends only through
\* apply_pending_test, cancel_pending_test or the timeout, each of which
\* ends it; cancel and timeout re-apply the captured configuration and
\* report failure; with no test pending apply and cancel return Err and
\* change nothing; a test request during a pending test is rejected and
\* leaves the test in place; and the compositor keeps running throughout.
C19_Original ==
  [][/\ (omp.pending /\ ~omp'.pending) => input'.kind \in OutputTestEnders
     /\ (omp.pending /\ input'.kind \in OutputTestEnders) => ~omp'.pending
     /\ (omp.pending /\ input'.kind \in {"cancel_pending_test", "test_timeout"}) => Reverted
     /\ (~omp.pending /\ input'.kind \in {"apply_pending_test", "cancel_pending_test"})
          => Refused /\ input'.notified = <<>>
     /\ (omp.pending /\ input'.kind = "output_test")
          => Refused /\ Len(input'.notified) = 1 /\ input'.notified[1][1] = "send_failed"
     /\ ~omp'.crashed]_vars

\* C19, the part the code keeps: everything stated about apply, cancel and
\* a second test request, and the revert performed by the timeout callback
\* before it returns
C19_ApplyCancelReject ==
  [][/\ (omp.pending /\ ~omp'.pending) => input'.kind \in OutputTestEnders
     /\ (omp.pending /\ input'.kind \in OutputTestEnders) => ~omp'.pending
     /\ (omp.pending /\ input'.kind \in {"cancel_pending_test", "test_timeout"}) => Reverted
     /\ (~omp.pending /\ input'.kind \in {"apply_pending_test", "cancel_pending_test"})
          => Refused /\ input'.notified = <<>>
     /\ (omp.pending /\ input'.kind = "output_test")
          => Refused /\ Len(input'.notified) = 1 /\ input'.notified[1][1] = "send_failed"
     /\ omp'.crashed => input'.kind = "test_timeout"]_vars

\* a test was cancelled after it had moved an output, and the output is
\* back where the captured configuration had it
C19_Cancelled ==
  /\ input.kind = "cancel_pending_test" /\ input.result = "Ok"
  /\ input.notified # <<>> /\ input.notified[1][1] = "send_failed"
  /\ \E o \in DOMAIN input.notified[1][2] :
       output_state[o].top_left # input.notified[1][2][o]

\* C20 as stated: for every rectangle R over i32 coordinates and sizes,
\* R.overlaps(R) is true iff R has non-zero width and non-zero height.
C20_Original ==
  (call.fn = "overlaps" /\ call.self = call.rectangle)
    => (call.result = "true"
          <=> (call.self.size.width # 0 /\ call.self.size.height # 0))

\* C20, the part the code keeps: when neither left + width nor top + height
\* leaves the i32 range, R.overlaps(R) is true iff both sizes are positive
C20_PositiveInRange ==
  (/\ call.fn = "overlaps" /\ call.self = call.rectangle
   /\ ~AddOverflows(left(call.self), call.self.size.width)
   /\ ~AddOverflows(top(call.self), call.self.size.height))
    => (call.result = "true"
          <=> (call.self.size.width > 0 /\ call.self.size.height > 0))

\* a rectangle of positive size at the end of the range met a build with
\* overflow checks
C20_Panicked ==
  /\ call.fn = "overlaps" /\ call.result = "panic"
  /\ call.self.size.width > 0 /\ call.self.size.height > 0

\* ------------------------------------------------------ C21, C22: overlaps of two rectangles
\* the call in call.fn has returned or panicked
Overlapped == call.fn = "overlaps"
InRange(r) ==
  /\ ~AddOverflows(left(r), r.size.width)
  /\ ~AddOverflows(top(r), r.size.height)

\* C21 as stated: for all rectangles A and B, A.overlaps(B) and B.overlaps(A)
\* give the same outcome in the same build.
C21_Original ==
  Overlapped =>
    call.result = overlaps_call(call.rectangle, call.self, call.overflow_checks)

\* C21, the part the code keeps: whenever both calls return, they return the
\* same value
C21_SymmetricWhenReturning ==
  (/\ Overlapped /\ call.result # "panic"
   /\ overlaps_call(call.rectangle, call.self, call.overflow_checks) # "panic")
    => call.result = overlaps_call(call.rectangle, call.self, call.overflow_checks)

\* A.overlaps(B) panicked where B.overlaps(A) returns false
C21_OneSidedPanic ==
  /\ Overlapped /\ call.result = "panic"
  /\ overlaps_call(call.rectangle, call.self, call.overflow_checks) = "false"

\* the stretch of an axis a rectangle covers, whichever way its size points
Lo(a, d) == IF d >= 0 THEN a ELSE a + d
Hi(a, d) == IF d >= 0 THEN a + d ELSE a
Max2(a, b) == IF a >= b THEN a ELSE b
Min2(a, b) == IF a <= b THEN a ELSE b
\* two stretches share more than a point
Shares(a1, d1, a2, d2) == Max2(Lo(a1, d1), Lo(a2, d2)) < Min2(Hi(a1, d1), Hi(a2, d2))
SharedArea(a, b) ==
  /\ Shares(a.top_left.x, a.size.width, b.top_left.x, b.size.width)
  /\ Shares(a.top_left.y, a.size.height, b.top_left.y, b.size.height)
NonZero(r) == r.size.width # 0 /\ r.size.height # 0

\* C22 as stated: two rectangles whose edges stay in the i32 range overlap
\* iff they are disjoint on neither axis and neither has zero width or
\* height; touching ones do not overlap and a nested one does.
C22_Original ==
  (Overlapped /\ InRange(call.self) /\ InRange(call.rectangle))
    => (call.result = "true"
          <=> (/\ SharedArea(call.self, call.rectangle)
               /\ NonZero(call.self) /\ NonZero(call.rectangle)))

\* C22, the part the code keeps: for rectangles of non-negative size whose
\* edges stay in range, overlaps is true iff the two share a positive area
C22_NonNegativeSizes ==
  (/\ Overlapped /\ InRange(call.self) /\ InRange(call.rectangle)
   /\ call.self.size.width >= 0 /\ call.self.size.height >= 0
   /\ call.rectangle.size.width >= 0 /\ call.rectangle.size.height >= 0)
    => (call.result = "true" <=> SharedArea(call.self, call.rectangle))

\* a rectangle nested in another was found to overlap it, and two that
\* touch along an edge were not
C22_Nested ==
  /\ Overlapped /\ call.result = "true"
  /\ call.self = Rectangle(PointZERO, Size(2, 2))
  /\ call.rectangle = Rectangle(Point(1, 1), Size(1, 1))

\* ------------------------------------------------------ C23..C27: the gesture slot
Idle == gesture.kind = "none"
\* the step was the named event or request reaching its handler
InputWas(kind) == input'.kind = kind
ReleaseStep == InputWas("button") /\ input'.state = "Released"

\* C23 as stated: the gesture slot only goes from empty to Move or Resize on
\* the matching request and from Move or Resize to empty on a button
\* release; a request arriving while a gesture is active leaves the slot as
\* it is.
C23_Original ==
  [][/\ (Idle /\ gesture' # gesture) =>
          \/ InputWas("request_move") /\ gesture'.kind = "move"
          \/ InputWas("request_resize") /\ gesture'.kind = "resize"
     /\ (~Idle /\ gesture' # gesture) => (ReleaseStep /\ gesture' = NoGesture)]_vars

\* C23, the part the code keeps: the slot is filled only by a move or
\* resize request, with the gesture of that request, and emptied only by a
\* button release
C23_FilledByRequestEmptiedByRelease ==
  [][/\ (gesture' # gesture /\ gesture'.kind = "move") => InputWas("request_move")
     /\ (gesture' # gesture /\ gesture'.kind = "resize") => InputWas("request_resize")
     /\ (gesture' # gesture /\ gesture'.kind = "none") => ReleaseStep]_vars

\* a resize gesture was replaced by a move gesture without a release
C23_Replaced ==
  /\ gesture.kind = "move" /\ input.kind = "request_move"
  /\ "resizing" \in windows[gesture.window].server_pending

GestureRequest == InputWas("request_move") \/ InputWas("request_resize")

\* C24: a move or resize request fills the gesture slot only if the
\* requesting window holds keyboard focus when it arrives; the request of
\* an unfocused window changes neither the slot nor any window, its
\* maximized, fullscreen and resizing state included.
C24_UnfocusedRequestIgnored ==
  [][GestureRequest =>
       /\ gesture' # gesture => focused_surface = input'.id
       /\ focused_surface # input'.id =>
            (gesture' = gesture /\ windows' = windows /\ input'.calls = <<>>)]_vars

\* a maximized window without focus asked for a move while the focused
\* window's gesture was active, and the gesture is still that window's
C24_Witness ==
  /\ input.kind = "request_move"
  /\ focused_surface # NULL /\ input.id # focused_surface
  /\ "maximized" \in windows[input.id].current
  /\ gesture.kind # "none" /\ gesture.window = focused_surface

\* the resizing state of a window: what the client has taken and what it
\* will be sent with the next configure
ResizingSet(ws, w) == "resizing" \in (ws[w].current \cup ws[w].server_pending)

\* C25 as stated: a button release during a gesture empties the slot and is
\* consumed; after the release that ends a resize the window's resizing
\* state is cleared, and no window is left resizing while no resize
\* gesture is active.
C25_Original ==
  /\ [][(ReleaseStep /\ ~Idle) =>
          /\ gesture' = NoGesture /\ input'.handled
          /\ gesture.kind = "resize" => ~ResizingSet(windows', gesture.window)]_vars
  /\ [](gesture.kind # "resize" => \A w \in Windows : ~ResizingSet(windows, w))

\* C25, the part the code keeps: a release during a gesture empties the
\* slot and is consumed, and when the client had already taken the
\* resizing state the release of a resize withdraws it
C25_ReleaseEndsGesture ==
  [][(ReleaseStep /\ ~Idle) =>
       /\ gesture' = NoGesture /\ input'.handled
       /\ (gesture.kind = "resize" /\ "resizing" \in windows[gesture.window].current)
            => "resizing" \notin windows'[gesture.window].server_pending]_vars

\* the resize ended before the client took the resizing state, and the
\* client has now taken it with no gesture active
C25_LeftResizing ==
  /\ Idle
  /\ \E w \in Windows :
       /\ windows[w].status = "live"
       /\ "resizing" \in windows[w].current /\ "resizing" \in windows[w].server_pending

\* the step is the resize request of the focused window w with mask edges,
\* reaching the registered policy
AcceptedResize(w, edges) ==
  RequestResize(w, edges) /\ policy # "none" /\ focused_surface = w
\* the gesture a resize request installs: the window, the cursor, the mask
\* and the extents the window has when the request arrives
Snapshot(w, edges) ==
  [NoGesture EXCEPT !.kind = "resize", !.window = w, !.cursor_position = cursor,
                    !.edges = edges, !.original_extents = extents(windows, layers, w)]

GestureRefs(g, w) == IF g.kind # "none" /\ g.window = w THEN 1 ELSE 0
\* the calls of the last input step that were made on a destroyed window
CallsOnDestroyed ==
  {i \in DOMAIN input.calls : windows[input.calls[i][2]].status = "destroyed"}

\* C27 as stated: the gesture slot holds no owning reference on its window,
\* so no destroyed window is kept alive by a gesture, and no pointer event
\* invokes move_to or set_extents (or anything else) on a destroyed window
\* or reads its freed surface.
C27_Original ==
  /\ \A w \in Windows : windows[w].status = "destroyed" => GestureRefs(gesture, w) = 0
  /\ CallsOnDestroyed = {}
  /\ ~omp.crashed

\* a pointer motion during a move gesture whose window had been destroyed
\* called move_to on that window
C27_MovedAfterDestroy ==
  /\ input.kind = "motion" /\ gesture.kind = "move"
  /\ windows[gesture.window].status = "destroyed"
  /\ \E i \in DOMAIN input.calls : input.calls[i][1] = "move_to" /\ input.calls[i][2] = gesture.window

\* the step is the commit handler of window w
CommitOf(w) == last_op'.op = "commit" /\ last_op'.id = w
\* the window that holds keyboard focus can receive it
FocusIsFocusable ==
  focused_surface # NULL => can_receive_focus(windows[focused_surface])

\* C28: when a commit arrives for the window that holds keyboard focus and
\* that window can no longer receive focus, the focus is cleared, the
\* window is not activated, and no other window gets the focus; in every
\* state the window that holds focus, if any, can receive it.
C28_UnfocusableCommitBlurs ==
  /\ [][\A w \in Windows :
          (CommitOf(w) /\ focused_surface = w /\ ~can_receive_focus(windows'[w]))
            => /\ focused_surface' = NULL
               /\ ~windows'[w].activated]_vars
  /\ []FocusIsFocusable

\* a layer surface that held keyboard focus committed a state that is not
\* keyboard interactive, and nothing holds focus now
C28_Witness ==
  /\ last_op.op = "commit" /\ last_op.had_focus
  /\ windows[last_op.id].status = "live"
  /\ ~can_receive_focus(windows[last_op.id])
  /\ focused_surface = NULL

\* the step creates window w: one of the new_surface handlers called
\* new_window for it
Created(w) == windows[w].status = "none" /\ windows'[w].status = "live"

\* C29: new_window puts a window that can receive focus at index 0 of its
\* layer's sequence and any other window at the end; the windows already in
\* that layer keep their order, the other layers are unchanged, and the
\* window starts unmapped with no pending updates, at top-left (0,0) and
\* on no output (a layer-shell surface is placed against its output by its
\* handler right after new_window, so position and outputs are stated for
\* the XDG and XWayland handlers, which add nothing to new_window).
C29_NewWindowPlacement ==
  [][\A w \in Windows :
       Created(w) =>
         LET win == windows'[w]
             layer == win.layer
         IN /\ layers'[layer] = IF can_receive_focus(win) THEN <<w>> \o layers[layer]
                                ELSE layers[layer] \o <<w>>
            /\ \A other \in DOMAIN layers \ {layer} : layers'[other] = layers[other]
            /\ ~win.mapped /\ win.pending_updates = <<>>
            /\ win.kind # "layer" => win.top_left = PointZERO /\ win.outputs = <<>>]_vars

\* the policy has just been told of a new toplevel that went in front of
\* the window its layer already held
C29_Witness ==
  /\ seen.cb = "advise_new_window" /\ seen.id = 2
  /\ can_receive_focus(windows[2]) /\ windows[1].status = "live"
  /\ layers["Normal"] = <<2, 1>>

\* how often window w occurs in the five layer sequences together
Occurrences(ls, w) == SeqCount(all_windows(ls), w)
\* the step destroys window w
Destroyed(w) == windows[w].status = "live" /\ windows'[w].status = "destroyed"

\* C30: every live window occurs exactly once in the five layer sequences,
\* and that occurrence is in the sequence of its own layer; a focus_window
\* step keeps, for every layer and every window, the number of occurrences;
\* a destroy step removes the destroyed window from its layer and leaves
\* the other windows, their order and the other layers as they were.
C30_ExactlyOnceInOwnLayer ==
  /\ [](\A w \in Windows :
          windows[w].status = "live" =>
            /\ Occurrences(layers, w) = 1
            /\ SeqCount(layers[windows[w].layer], w) = 1)
  /\ [][\A w \in Windows :
          /\ (last_op'.op = "focus_window" /\ last_op'.id = w) =>
               \A l \in WindowLayer, v \in Windows :
                 SeqCount(layers'[l], v) = SeqCount(layers[l], v)
          /\ Destroyed(w) =>
               /\ Occurrences(layers', w) = 0
               /\ \A l \in WindowLayer : layers'[l] = SeqRetain(layers[l], w)
               /\ Len(all_windows(layers')) = Len(all_windows(layers)) - 1
       ]_vars

\* focus_window has moved the second toplevel, which new_window had put in
\* front of the first, to the end of the Normal layer: both are still
\* there, once each
C30_Witness ==
  /\ last_op.op = "focus_window" /\ last_op.id = 2 /\ focused_surface = 2
  /\ windows[1].status = "live" /\ windows[1].kind = "xdg_toplevel"
  /\ windows[2].kind = "xdg_toplevel"
  /\ layers["Normal"] = <<1, 2>>

\* the step ran update_outputs once, for window w, and nothing after it:
\* move_to, or the commit handler of an XDG surface
UpdatedOutputsOf(w) ==
  /\ last_op'.id = w
  /\ \/ last_op'.op = "move_to"
     \/ last_op'.op = "commit" /\ windows[w].kind \in {"xdg_toplevel", "xdg_popup"}
\* output o lies under window w
OnOutput(ws, ls, os, w, o) == overlaps(output_extents(os, o), extents(ws, ls, w))

\* C31: after update_outputs has run for window w, a registered output is in
\* w.outputs() exactly when its extents overlap w's extents; on_entered_output
\* fired once for each output added, on_left_output once for each output
\* removed, nothing else fired, and w.outputs() lists no output twice.
C31_MembershipFollowsOverlap ==
  [][\A w \in Windows :
       UpdatedOutputsOf(w) =>
         /\ \A o \in SeqSet(outputs') :
              /\ SeqHas(windows'[w].outputs, o)
                   <=> OnOutput(windows', layers', output_state', w, o)
              /\ SeqCount(fired', <<"entered", w, o>>) =
                   IF ~SeqHas(windows[w].outputs, o) /\ SeqHas(windows'[w].outputs, o)
                   THEN 1 ELSE 0
              /\ SeqCount(fired', <<"left", w, o>>) =
                   IF SeqHas(windows[w].outputs, o) /\ ~SeqHas(windows'[w].outputs, o)
                   THEN 1 ELSE 0
         /\ \A i \in DOMAIN fired' :
              fired'[i][1] \in {"entered", "left"} /\ fired'[i][2] = w
                /\ SeqHas(outputs', fired'[i][3])
         /\ \A o \in Outputs : SeqCount(windows'[w].outputs, o) <= 1]_vars

\* move_to took a window from the first output to the second: it left one
\* and entered the other
C31_Witness ==
  /\ last_op.op = "move_to"
  /\ fired = << <<"left", last_op.id, 1>>, <<"entered", last_op.id, 2>> >>
  /\ windows[last_op.id].outputs = <<2>>

\* c is a live popup whose parent surface is wrapped by the live window p
PopupOf(ws, c, p) ==
  /\ ws[c].status = "live" /\ ws[p].status = "live"
  /\ parent_wlr_surface(ws[c]) = p
\* the sum the window's rectangles are displaced by, written out for a
\* window with parent p
DisplacementUnder(ws, ls, c, p) ==
  DispSub(DispAdd(DispAdd(as_displacement(ws[c].top_left),
                          as_displacement(buffer_extents(ws, ls, p).top_left)),
                  parent_displacement(ws, ws[c])),
          buffer_displacement(ws[c]))

\* C32: for a window whose parent surface is wrapped by a live window,
\* extents() and buffer_extents() are the surface-local rectangle displaced
\* by stored top-left + the parent's current buffer top-left + the
\* surface's parent displacement - its buffer displacement; a move_to of
\* the parent by d shifts both rectangles of the child by d and changes
\* nothing in the child.
C32_ExtentsFollowParent ==
  /\ [](\A c \in Windows, p \in Windows :
          PopupOf(windows, c, p) =>
            /\ extents(windows, layers, c) =
                 RectAddD(surface_extents(windows[c]), DisplacementUnder(windows, layers, c, p))
            /\ buffer_extents(windows, layers, c) =
                 RectAddD(buffer_rect(windows[c]), DisplacementUnder(windows, layers, c, p)))
  /\ [][\A c \in Windows, p \in Windows :
          (PopupOf(windows, c, p) /\ last_op'.op = "move_to" /\ last_op'.id = p) =>
            LET d == PointSub(windows'[p].top_left, windows[p].top_left)
            IN /\ extents(windows', layers', c) = RectAddD(extents(windows, layers, c), d)
               /\ buffer_extents(windows', layers', c) =
                    RectAddD(buffer_extents(windows, layers, c), d)
               /\ windows'[c] = windows[c]]_vars

\* the parent of a popup was moved one to the right, and the popup, whose
\* own stored top-left is still the origin, is found one further right
C32_Witness ==
  /\ last_op.op = "move_to" /\ windows[last_op.id].top_left = Point(1, 0)
  /\ \E c \in Windows :
       /\ PopupOf(windows, c, last_op.id)
       /\ windows[c].top_left = PointZERO /\ windows[c].popup_geometry = Point(1, 0)
       /\ extents(windows, layers, c).top_left = Point(2, 0)

\* position of a layer in the compositing order, bottom-up
LayerRank(layer) ==
  CASE layer = "Background" -> 1 [] layer = "Bottom" -> 2 [] layer = "Normal" -> 3
    [] layer = "Top" -> 4 [] layer = "Overlay" -> 5
\* index of window w in the sequence of its layer
IndexIn(seq, w) == CHOOSE i \in 1..Len(seq) : seq[i] = w
\* v is in front of w in stacking order
InFrontOf(v, w) ==
  \/ LayerRank(windows[v].layer) > LayerRank(windows[w].layer)
  \/ /\ windows[v].layer = windows[w].layer
     /\ IndexIn(layers[windows[v].layer], v) > IndexIn(layers[windows[w].layer], w)
\* the half-open test on the extents of w, over the integers
Covers(w, point) ==
  LET r == extents(windows, layers, w)
  IN /\ r.top_left.x <= point.x /\ point.x - r.top_left.x < r.size.width
     /\ r.top_left.y <= point.y /\ point.y - r.top_left.y < r.size.height
Candidates(point) == {w \in Windows : windows[w].status = "live" /\ Covers(w, point)}
\* what the claim says window_at answers for point
FrontMost(point) ==
  IF Candidates(point) = {} THEN [result |-> "none", found |-> NULL]
  ELSE [result |-> "some",
        found |-> CHOOSE w \in Candidates(point) :
                    \A v \in Candidates(point) \ {w} : InFrontOf(w, v)]
\* the right and bottom edge of every window's extents is an i32
EdgesInRange ==
  \A w \in Windows :
    windows[w].status = "live" =>
      LET r == extents(windows, layers, w)
      IN ~AddOverflows(left(r), r.size.width) /\ ~AddOverflows(top(r), r.size.height)

\* C33 as stated: window_at(p) answers the front-most window (highest layer
\* first, then the last of that layer's sequence) among those whose extents
\* contain p under left <= x < right and top <= y < bottom, and answers
\* with an absent value, never an error, when no window contains p.
C33_Original ==
  [][\A point \in HitPoints, overflow_checks \in BOOLEAN :
       WindowAt(point, overflow_checks) =>
         /\ call'.result = FrontMost(point).result
         /\ call'.found = FrontMost(point).found]_vars

\* C33, where the edges of all extents are representable: the answer is
\* the front-most window whose extents contain the point, or none
C33_FrontMostInRange ==
  [][\A point \in HitPoints, overflow_checks \in BOOLEAN :
       (WindowAt(point, overflow_checks) /\ EdgesInRange) =>
         /\ call'.result = FrontMost(point).result
         /\ call'.found = FrontMost(point).found]_vars

\* window_at panicked on a window that lies at the end of the i32 range
C33_Panicked ==
  /\ call.fn = "window_at" /\ call.result = "panic" /\ call.overflow_checks
  /\ \E w \in Windows : windows[w].top_left.x = MaxI32

\* window_at answered the window of the higher layer although the window of
\* the lower layer was created later and covers the point as well
C33_HigherLayerFirst ==
  /\ call.fn = "window_at" /\ call.result = "some" /\ call.found = 1
  /\ windows[1].layer = "Top" /\ windows[2].layer = "Normal"
  /\ Covers(1, call.point) /\ Covers(2, call.point)

\* C34 as stated: when a policy callback asks a popup to close, which
\* destroys the popup and advises its deletion from inside the callback,
\* the nested callback is delivered without failure: the process goes on,
\* the popup is destroyed and gone from the layers, and the policy was
\* advised of the deletion last.
C34_Original ==
  [][\A w \in Windows, c \in Windows :
       PolicyAsksPopupToClose(w, 0, c) =>
         /\ ~omp'.crashed
         /\ windows'[c].status = "destroyed"
         /\ ~SeqHas(all_windows(layers'), c)]_vars

\* the process panicked inside a policy callback that closed a popup: the
\* popup's on_destroy has fired, but the popup is still in its layer
C34_PanickedInNestedDestroy ==
  /\ omp.crashed /\ last_op.op = "commit"
  /\ \E c \in Windows :
       /\ windows[c].kind = "xdg_popup" /\ windows[c].status = "live"
       /\ SeqHas(all_windows(layers), c)

\* the registered outputs that lie under window w
OutputsUnder(w) ==
  {o \in SeqSet(outputs) :
     output_state[o].status = "live" /\ OnOutput(windows, layers, output_state, w, o)}

\* C35 as stated: between handlers, the outputs() of every window (here:
\* of every mapped window, which has been through update_outputs) are the
\* live registered outputs whose extents overlap the window's extents, also
\* for a popup whose parent was moved and after an output was removed.
C35_Original ==
  \A w \in Windows :
    (windows[w].status = "live" /\ windows[w].mapped) =>
      SeqSet(windows[w].outputs) = OutputsUnder(w)

\* a mapped popup whose parent was moved lists an output it no longer lies
\* on, or misses one it now lies on
C35_StalePopup ==
  /\ last_op.op = "move_to"
  /\ \E c \in Windows :
       /\ PopupOf(windows, c, last_op.id) /\ windows[c].mapped
       /\ SeqSet(windows[c].outputs) # OutputsUnder(c)
       /\ \A o \in SeqSet(windows[c].outputs) : output_state[o].status = "live"

\* a mapped window lists an output that has been destroyed
C35_ListsDestroyedOutput ==
  \E w \in Windows, o \in Outputs :
    /\ windows[w].status = "live" /\ windows[w].mapped
    /\ SeqHas(windows[w].outputs, o) /\ output_state[o].status = "destroyed"

\* the windows that are in the activated state
Activated == {w \in Windows : windows[w].status = "live" /\ windows[w].activated}

\* C36 as stated: at most one window is activated at any time; whenever
\* keyboard focus leaves a window (focus_window of another window, blur,
\* activation of the input inhibit for another client) that window is
\* deactivated.
C36_Original ==
  /\ [](Cardinality(Activated) <= 1)
  /\ [][\A w \in Windows :
          (focused_surface = w /\ focused_surface' # w /\ windows'[w].status = "live")
            => ~windows'[w].activated]_vars

\* C36, the part the code keeps: focus_window and blur deactivate the window
\* that loses keyboard focus
C36_FocusAndBlurDeactivate ==
  [][\A w \in Windows :
       (focused_surface = w /\ focused_surface' # w /\ windows'[w].status = "live"
          /\ exclusive_client' = exclusive_client)
         => ~windows'[w].activated]_vars

\* two windows are activated: the inhibit took the focus from the first
\* without deactivating it, and the second was focused afterwards
C36_TwoActivated ==
  /\ Cardinality(Activated) = 2
  /\ exclusive_client # NULL /\ focused_surface # NULL

\* C37: while an exclusive client is set, keyboard focus and pointer focus
\* are held by no surface of another client; a focus_window for a window of
\* another client changes neither the focus nor any layer.
C37_InhibitKeepsForeignOut ==
  /\ [](exclusive_client # NULL =>
          /\ focused_surface # NULL => windows[focused_surface].client = exclusive_client
          /\ pointer_focus # NULL => windows[pointer_focus].client = exclusive_client)
  /\ [][\A w \in Windows :
          (last_op'.op = "focus_window" /\ last_op'.id = w /\ exclusive_client # NULL
             /\ windows[w].client # exclusive_client)
            => focused_surface' = focused_surface /\ layers' = layers]_vars

\* focus_window was refused for a window of another client while the
\* exclusive client's window kept the keyboard focus
C37_Witness ==
  /\ exclusive_client # NULL /\ last_op.op = "focus_window"
  /\ windows[last_op.id].status = "live"
  /\ windows[last_op.id].client # exclusive_client
  /\ focused_surface # NULL /\ focused_surface # last_op.id
  /\ windows[focused_surface].client = exclusive_client

\* the step is the commit handler of window w with serial S
CommitWith(w, S) == last_op'.op = "commit" /\ last_op'.id = w /\ last_op'.serial = S
\* the serials of the pending updates of window w
PendingSerials(ws, w) == DOMAIN ws[w].pending_updates

\* C38 as stated (its safety part): after a commit with serial S no pending
\* update with a serial older than S remains, so that the entries recorded
\* by set_extents do not accumulate when the client acknowledges only the
\* most recent configure.
C38_Original ==
  [][\A w \in Windows, S \in 0..MaxConfigures :
       CommitWith(w, S) => \A s \in PendingSerials(windows', w) : s >= S]_vars

\* C38, what the commit handler does: it removes the entry of exactly the
\* committed serial and no other
C38_RemovesCommittedSerialOnly ==
  [][\A w \in Windows, S \in 0..MaxConfigures :
       CommitWith(w, S) =>
         PendingSerials(windows', w) = PendingSerials(windows, w) \ {S}]_vars

\* an entry older than the serial the client has acknowledged stays as
\* long as the window lives: no later commit carries its serial
C38_StaleEntryStays ==
  [][\A w \in Windows, s \in 0..MaxConfigures :
       (s \in PendingSerials(windows, w) /\ s < windows[w].configure_serial
          /\ windows'[w].status = "live")
         => s \in PendingSerials(windows', w)]_vars

\* during a resize gesture the client acknowledged the second configure
\* only: the update recorded for the first is still pending
C38_Accumulated ==
  /\ last_op.op = "commit" /\ last_op.serial = 2 /\ last_op.flag
  /\ PendingSerials(windows, last_op.id) = {1}

\* C40 as stated: the handler closure of a WlTimer is released exactly once
\* on every path on which the timer goes away (fired, dropped without
\* firing, dropped from inside its own callback), and it is never used
\* after it was released.
C40_Original ==
  [][(omp.timer = "armed" /\ omp'.timer = "none")
       => (omp'.released = 1 /\ ~omp'.used_released)]_vars

\* C40, the part the code keeps: a timer that goes away without having
\* fired (apply_pending_test, cancel_pending_test, a failed WlTimer::init or
\* a failed create_output_config) has its handler released exactly once and
\* never used afterwards
C40_UnfiredReleasedOnce ==
  [][(omp'.timer = "none" /\ omp' # omp /\ input'.kind # "test_timeout")
       => (omp'.released = 1 /\ ~omp'.used_released)]_vars

\* the timeout callback returned: its closure was released by the drop of
\* the timer while it ran, read afterwards, and released again by the
\* trampoline
C40_ReleasedTwice ==
  /\ input.kind = "test_timeout" /\ ~omp.crashed
  /\ omp.released = 2 /\ omp.used_released


\* the sequence s read from its end
Reversed(s) == [i \in 1..Len(s) |-> s[Len(s) + 1 - i]]

\* C39: EventOnce::fire invokes every handler registered so far exactly
\* once, the last registered first, and leaves the list empty, so that a
\* second fire invokes nothing; and when the destroy event of a destroyed
\* output is fired again, the policy is not advised again and the registry
\* and the output's bookkeeping stay as they are.
C39_FireOnceInReverse ==
  /\ [][EventOnceFire => /\ call'.invoked = Reversed(call.listeners)
                         /\ call'.listeners = <<>>]_vars
  /\ [][\A o \in Outputs :
          OutputDestroyAgain(o) => /\ seen' = NoSeen
                                   /\ outputs' = outputs
                                   /\ output_state' = output_state]_vars
  /\ [](\A o \in Outputs : output_state[o].status = "destroyed"
                              => output_state[o].on_destroy = 0 /\ ~SeqHas(outputs, o))

\* a fire found two different handlers and ran the later one first, and the
\* destroy event of a destroyed output was fired again under a registered
\* policy
C39_Witness ==
  /\ call.fn = "fire" /\ call.registered = <<"a", "b">>
  /\ call.invoked = <<"b", "a">> /\ call.listeners = <<>>
  /\ last_op.op = "output_destroy_again" /\ policy # "none"
  /\ output_state[last_op.id].status = "destroyed" /\ seen = NoSeen

====
